---- MODULE Spec2Model ----
(***************************************************************************)
(* ConceptMapAgent.enhance_spec (src/concept_map_agent.py) as a state      *)
(* machine: validation, concept normalisation, relationship sanitisation,  *)
(* promotion of missing endpoints, the final filter, the layout strategy   *)
(* and the returned result.                                                *)
(*                                                                         *)
(* A Python str is a sequence of one-character strings; a Python value     *)
(* that may or may not be a str is a record [tag, s].                      *)
(***************************************************************************)
EXTENDS Integers, Sequences, FiniteSets, TLC

VARIABLES
  spec,                     \* the argument of enhance_spec
  pc,                       \* where the call stands
  normalized_topic, normalized_concepts, seen, canon_to_display,
  sanitized_relationships,
  missing_concepts,         \* the part of list(missing_concepts) still to visit
  layout,
  result,                   \* the returned dict, once pc = "done"
  rng,                      \* the module-level generator of random
  pass,                     \* 1 for the first call, 2 for the call after it
  first_result,             \* the result of the first call, during the second
  drawn,                    \* the random() values a call running beside others got
  normalized_children, seen_ids     \* locals of MindMapAgent.enhance_spec

vars == <<spec, pc, normalized_topic, normalized_concepts, seen,
          canon_to_display, sanitized_relationships, missing_concepts,
          layout, result, rng, pass, first_result, drawn,
          normalized_children, seen_ids>>

\* what a call of ConceptMapAgent.enhance_spec that runs alone never touches
other_calls == <<drawn, normalized_children, seen_ids>>

\* ------------------------------------------------------------------ constants
MAX_CONCEPTS == 30
MAX_LABEL_LEN == 60

\* ------------------------------------------------------------------ bounds
\* longest free-form tail of the concepts list, after the generated prefix
MaxTail == 2
\* longest relationships list
MaxRels == 2

\* body(v): v is worked out first, once, and named in body
With(v, body(_)) == IF v = v THEN body(v) ELSE body(v)

\* ------------------------------------------------------------------ values
EmptyMap == [k \in {} |-> <<>>]
\* a sequence, a function given by a rule, with every element worked out once
AsSeq(f) == f \o <<>>
AsMap(f) == f @@ EmptyMap
SeqToSet(s) == {s[i] : i \in DOMAIN s}
\* the slice s[:n]
Take(s, n) == SubSeq(s, 1, IF n < Len(s) THEN n ELSE Len(s))

\* ------------------------------------------------------------------ strings
ELLIPSIS == "..."

PyStr(s) == [tag |-> "str", s |-> s]
PyOther == [tag |-> "other", s |-> <<>>]

IsSpace(c) == c \in {" ", "\t"}

Lower(c) ==
  CASE c = "A" -> "a"
    [] c = "B" -> "b"
    [] c = "C" -> "c"
    [] c = "D" -> "d"
    [] c = "K" -> "k"
    [] c = "T" -> "t"
    [] OTHER -> c

\* " ".join(text.split()): runs of whitespace collapse to one space, leading
\* and trailing whitespace disappears.  Position i is kept when it holds no
\* whitespace, or the first whitespace after a word that has a word behind it
JoinSplit(s) ==
  LET kept == SelectSeq([i \in 1..Len(s) |-> i], LAMBDA i :
                \/ ~IsSpace(s[i])
                \/ /\ i > 1
                   /\ ~IsSpace(s[i - 1])
                   /\ \E j \in (i + 1)..Len(s) : ~IsSpace(s[j]))
  IN [k \in 1..Len(kept) |-> IF IsSpace(s[kept[k]]) THEN " " ELSE s[kept[k]]]

RECURSIVE RStrip(_)
RStrip(s) ==
  IF s = <<>> THEN s
  ELSE IF IsSpace(s[Len(s)]) THEN RStrip(SubSeq(s, 1, Len(s) - 1))
  ELSE s

\* _clean_text: "" for a non-str, else whitespace-collapsed and cut to max_len
clean_text(text, max_len) ==
  IF text.tag # "str" THEN <<>>
  ELSE With(JoinSplit(text.s), LAMBDA cleaned :
         IF Len(cleaned) > max_len
         THEN RStrip(SubSeq(cleaned, 1, max_len - 1)) \o <<ELLIPSIS>>
         ELSE cleaned)

\* canonical: lower-case, all whitespace removed
canonical(label) ==
  LET words == SelectSeq(label, LAMBDA c : ~IsSpace(c))
  IN [k \in 1..Len(words) |-> Lower(words[k])]

\* ------------------------------------------------------------------ normalisation
\* one pass of the body of "for c in concepts"
ConceptStep(c, topic, st) ==
  IF c.tag # "str" THEN st
  ELSE With(clean_text(c, MAX_LABEL_LEN), LAMBDA cleaned :
       With(canonical(cleaned), LAMBDA canon :
         IF cleaned # <<>> /\ canon \notin st.seen /\ cleaned # topic
         THEN [nc |-> Append(st.nc, cleaned),
               seen |-> st.seen \cup {canon},
               c2d |-> (canon :> cleaned) @@ st.c2d]
         ELSE st))

RECURSIVE ConceptLoopLateBreak(_, _, _, _, _)
\* the loop over the concepts with its break one concept late (> for >=)
ConceptLoopLateBreak(items, lo, hi, topic, st) ==
  IF lo > hi THEN st
  ELSE IF lo = hi
  THEN IF Len(st.nc) > MAX_CONCEPTS THEN st ELSE ConceptStep(items[lo], topic, st)
  ELSE With(ConceptLoopLateBreak(items, lo, (lo + hi) \div 2, topic, st), LAMBDA st2 :
         ConceptLoopLateBreak(items, (lo + hi) \div 2 + 1, hi, topic, st2))

RECURSIVE ConceptLoop(_, _, _, _, _)
\* "for c in concepts" over items[lo..hi], the first half and then the second.
\* The break of lines 78-79 is taken right after the append that fills the
\* list, so the loop has left exactly when st.nc is full: from then on a pass
\* changes nothing
ConceptLoop(items, lo, hi, topic, st) ==
  IF lo > hi THEN st
  ELSE IF lo = hi
  THEN IF Len(st.nc) >= MAX_CONCEPTS THEN st ELSE ConceptStep(items[lo], topic, st)
  ELSE With(ConceptLoop(items, lo, (lo + hi) \div 2, topic, st), LAMBDA st2 :
         ConceptLoop(items, (lo + hi) \div 2 + 1, hi, topic, st2))

NormalizeConcepts(items, topic) ==
  ConceptLoop(items, 1, Len(items), topic, [nc |-> <<>>, seen |-> {}, c2d |-> EmptyMap])

\* canon_to_display.get(c, raw)
Display(c2d, c, raw) == IF c \in DOMAIN c2d THEN c2d[c] ELSE raw

\* the pair as written, from first: tuple((frm_c, to_c)) without sorted
OrderedPairKey(frm_c, to_c) == <<frm_c, to_c>>

\* key = tuple(sorted((frm_c, to_c))): the unordered pair
PairKey(frm_c, to_c) == {frm_c, to_c}

\* one pass of the body of "for rel in relationships"
RelStep(rel, topic, seen0, c2d, st) ==
  IF rel.tag # "dict" THEN st
  ELSE With([frm_raw |-> clean_text(rel.from, MAX_LABEL_LEN),
             to_raw |-> clean_text(rel.to, MAX_LABEL_LEN),
             label |-> clean_text(rel.label, MAX_LABEL_LEN)], LAMBDA r :
       With([frm_c |-> canonical(r.frm_raw), to_c |-> canonical(r.to_raw),
             topic_c |-> canonical(topic)], LAMBDA k :
         IF r.frm_raw = <<>> \/ r.to_raw = <<>> \/ r.label = <<>> THEN st
         ELSE IF k.frm_c = k.to_c THEN st
         ELSE IF PairKey(k.frm_c, k.to_c) \in st.pairs THEN st
         ELSE [sr |-> Append(st.sr, [from |-> Display(c2d, k.frm_c, r.frm_raw),
                                     to |-> Display(c2d, k.to_c, r.to_raw),
                                     label |-> r.label]),
               pairs |-> st.pairs \cup {PairKey(k.frm_c, k.to_c)},
               missing |-> st.missing
                  \cup (IF k.frm_c \notin seen0 /\ k.frm_c # k.topic_c THEN {k.frm_c} ELSE {})
                  \cup (IF k.to_c \notin seen0 /\ k.to_c # k.topic_c THEN {k.to_c} ELSE {})]))

RECURSIVE RelLoop(_, _, _, _, _, _)
RelLoop(rels, i, topic, seen0, c2d, st) ==
  IF i > Len(rels) THEN st
  ELSE RelLoop(rels, i + 1, topic, seen0, c2d, RelStep(rels[i], topic, seen0, c2d, st))

SanitizeRelationships(rels, topic, seen0, c2d) ==
  RelLoop(rels, 1, topic, seen0, c2d, [sr |-> <<>>, pairs |-> {}, missing |-> {}])

RECURSIVE FindDisplay(_, _, _)
\* the display text of a missing endpoint: the first raw endpoint of the input
\* relationships whose canonical form is mc ("" when there is none)
FindDisplay(rels, i, mc) ==
  IF i > Len(rels) THEN <<>>
  ELSE IF rels[i].tag # "dict" THEN FindDisplay(rels, i + 1, mc)
  ELSE With(clean_text(rels[i].from, MAX_LABEL_LEN), LAMBDA frm_raw :
       With(clean_text(rels[i].to, MAX_LABEL_LEN), LAMBDA to_raw :
         IF canonical(frm_raw) = mc THEN frm_raw
         ELSE IF canonical(to_raw) = mc THEN to_raw
         ELSE FindDisplay(rels, i + 1, mc)))

\* the guard with <= for <
PromoteGuardInclusive(nc, seen0, mc) == Len(nc) <= MAX_CONCEPTS /\ mc \notin seen0

\* len(normalized_concepts) < MAX_CONCEPTS and mc_canon not in seen
PromoteGuard(nc, seen0, mc) == Len(nc) < MAX_CONCEPTS /\ mc \notin seen0

\* no final filter
KeepAllRelationships(sr, nc, topic) == sr

\* the final filter on sanitized_relationships
FilterRelationships(sr, nc, topic) ==
  LET concept_or_topic == SeqToSet(nc) \cup {topic}
  IN SelectSeq(sr, LAMBDA r : r.from \in concept_or_topic /\ r.to \in concept_or_topic)

\* ------------------------------------------------------------------ ordering
\* the characters of the model's labels, in code-point order
Alphabet == <<"\t", " ", "0", "1", "2", "3", "4", "5", "6", "7", "8", "9",
              "A", "B", "C", "D", "K", "T", "[", "]", "a", "b", "c", "d", "k", "n", "t",
              "x", "y", ELLIPSIS>>

Ord(c) == With(Alphabet, LAMBDA abc : CHOOSE i \in DOMAIN abc : abc[i] = c)

\* Python's a < b on str: decided at the first position where they differ,
\* and by the lengths when one is the beginning of the other
StrLess(a, b) ==
  LET differ == {i \in 1..Len(a) : i <= Len(b) /\ a[i] # b[i]}
  IN IF differ = {} THEN Len(a) < Len(b)
     ELSE With(CHOOSE i \in differ : \A j \in differ : i <= j, LAMBDA i :
            Ord(a[i]) < Ord(b[i]))

\* list.sort / sorted under the strict order Less (equal elements are the
\* same value): x fills the places after the elements less than it
SortBy(s, Less(_, _)) ==
  AsSeq([i \in 1..Len(s) |->
     CHOOSE x \in SeqToSet(s) :
       LET lt == Cardinality({j \in DOMAIN s : Less(s[j], x)})
       IN lt < i /\ i <= lt + Cardinality({j \in DOMAIN s : s[j] = x})])

Max2(a, b) == IF a >= b THEN a ELSE b
Min2(a, b) == IF a <= b THEN a ELSE b
SetMax(S) == CHOOSE m \in S : \A k \in S : k <= m
\* max(lo, v): the upper bound forgotten
ClampFromBelow(lo, hi, v) == Max2(lo, v)
\* max(lo, min(hi, v))
Clamp(lo, hi, v) == Max2(lo, Min2(hi, v))

\* ------------------------------------------------------------------ fixed point
\* a float is an integer count of 1/SCALE
SCALE == 100 * 100
\* a / b rounded towards zero, a in units of 1/SCALE
DivT(a, b) == IF a >= 0 THEN a \div b ELSE -((-a) \div b)
MulS(a, b) == DivT(a * b, SCALE)

\* ------------------------------------------------------------------ layered layout
\* adjacency that follows a relationship from its source to its target only
AdjacencyForward(node_set, rels) ==
  AsMap([n \in node_set |->
     {m \in node_set : \E i \in DOMAIN rels : rels[i].from = n /\ rels[i].to = m}])

\* undirected adjacency over nodes = [topic] + concepts
Adjacency(node_set, rels) ==
  AsMap([n \in node_set |->
     {m \in node_set : \E i \in DOMAIN rels :
         \/ (rels[i].from = n /\ rels[i].to = m)
         \/ (rels[i].to = n /\ rels[i].from = m)}])

RECURSIVE BfsLayers(_, _, _, _)
\* breadth-first search from the topic: lay maps every node reached so far to
\* its layer, frontier is the set of nodes of layer k
BfsLayers(adj, frontier, k, lay) ==
  LET next == {n \in UNION {adj[f] : f \in frontier} : n \notin DOMAIN lay}
  IN IF next = {} THEN lay
     ELSE BfsLayers(adj, next, k + 1, [n \in next |-> k + 1] @@ lay)

\* layer[n] when a node the search did not reach is put two layers below the
\* last layer reached, and a reached node where the search found it
LayerOfIslandsApart(topic, node_set, adj) ==
  With(BfsLayers(adj, {topic}, 0, (topic :> 0)), LAMBDA reached :
  With(SetMax({reached[n] : n \in DOMAIN reached}), LAMBDA max_layer :
    AsMap([n \in node_set |-> IF n \in DOMAIN reached THEN 2 * reached[n] ELSE 2 * max_layer + 2])))

\* layer[n] for every node; a node the search did not reach gets max layer + 1
LayerOf(topic, node_set, adj) ==
  With(BfsLayers(adj, {topic}, 0, (topic :> 0)), LAMBDA reached :
  With(SetMax({reached[n] : n \in DOMAIN reached}), LAMBDA max_layer :
    AsMap([n \in node_set |-> IF n \in DOMAIN reached THEN reached[n] ELSE max_layer + 1])))

\* the key (-degree, n) of the initial ordering inside a layer
DegreeLess(degree, a, b) ==
  \/ degree[a] > degree[b]
  \/ (degree[a] = degree[b] /\ StrLess(a, b))

\* layers[L]: the nodes of layer L in the order of nodes, then sorted
InitialLayers(nodes, layer, degree, max_layer) ==
  AsMap([L \in 0..max_layer |->
     SortBy(SelectSeq(nodes, LAMBDA n : layer[n] = L),
            LAMBDA a, b : DegreeLess(degree, a, b))])

\* dir_edges: one (lower, upper) pair per relationship that joins two layers
DirEdges(rels, layer) ==
  LET cross == SelectSeq(rels, LAMBDA r : layer[r.from] # layer[r.to])
  IN AsSeq([i \in DOMAIN cross |->
        IF layer[cross[i].from] < layer[cross[i].to]
        THEN <<cross[i].from, cross[i].to>>
        ELSE <<cross[i].to, cross[i].from>>])

\* index_of.get(nb, 0)
IndexOf(s, nb) ==
  IF \E i \in DOMAIN s : s[i] = nb
  THEN (CHOOSE i \in DOMAIN s : s[i] = nb) - 1
  ELSE 0

RECURSIVE SumSeq(_)
\* sum(s), one half and the other
SumSeq(s) ==
  IF s = <<>> THEN 0
  ELSE IF Len(s) = 1 THEN s[1]
  ELSE SumSeq(SubSeq(s, 1, Len(s) \div 2)) + SumSeq(SubSeq(s, Len(s) \div 2 + 1, Len(s)))

\* bc_val of node n: [inf, num, den] for num / den, or float('inf')
Barycenter(n, neighbor_layer_nodes, edges, lower_to_upper) ==
  LET mine == SelectSeq(edges, LAMBDA e : IF lower_to_upper THEN e[1] = n ELSE e[2] = n)
      neighbors == [i \in DOMAIN mine |-> IF lower_to_upper THEN mine[i][2] ELSE mine[i][1]]
  IN IF neighbors = <<>> THEN [inf |-> TRUE, num |-> 0, den |-> 1]
     ELSE [inf |-> FALSE,
           num |-> SumSeq([i \in DOMAIN neighbors |-> IndexOf(neighbor_layer_nodes, neighbors[i])]),
           den |-> Len(neighbors)]

BcLess(p, q) ==
  IF p.inf THEN FALSE
  ELSE IF q.inf THEN TRUE
  ELSE p.num * q.den < q.num * p.den

BcEq(p, q) == (p.inf /\ q.inf) \/ (~p.inf /\ ~q.inf /\ p.num * q.den = q.num * p.den)

\* the ordering that keeps only the nodes with a neighbour in the other layer
barycenter_order_linked(current_layer_nodes, neighbor_layer_nodes, edges, lower_to_upper, degree) ==
  With(AsMap([n \in SeqToSet(current_layer_nodes) |->
                Barycenter(n, neighbor_layer_nodes, edges, lower_to_upper)]), LAMBDA bc :
    SortBy(SelectSeq(current_layer_nodes, LAMBDA n : ~bc[n].inf),
           LAMBDA a, b : \/ BcLess(bc[a], bc[b])
                         \/ (BcEq(bc[a], bc[b]) /\ DegreeLess(degree, a, b))))

\* barycenter_order: current_layer_nodes sorted by (bc_val, -degree, n)
barycenter_order(current_layer_nodes, neighbor_layer_nodes, edges, lower_to_upper, degree) ==
  With(AsMap([n \in SeqToSet(current_layer_nodes) |->
                Barycenter(n, neighbor_layer_nodes, edges, lower_to_upper)]), LAMBDA bc :
    SortBy(current_layer_nodes,
           LAMBDA a, b : \/ BcLess(bc[a], bc[b])
                         \/ (BcEq(bc[a], bc[b]) /\ DegreeLess(degree, a, b))))

RECURSIVE SweepDown(_, _, _, _, _)
\* for L in range(1, max_layer + 1): order layer L by the layer above it
SweepDown(layers, L, max_layer, edges, degree) ==
  IF L > max_layer THEN layers
  ELSE With([layers EXCEPT ![L] =
               barycenter_order(layers[L], layers[L - 1], edges, FALSE, degree)],
            LAMBDA ordered : SweepDown(ordered, L + 1, max_layer, edges, degree))

RECURSIVE SweepUp(_, _, _, _, _)
\* for L in range(max_layer - 1, -1, -1): order layer L by the layer below it
SweepUp(layers, L, max_layer, edges, degree) ==
  IF L < 0 THEN layers
  ELSE With([layers EXCEPT ![L] =
               barycenter_order(layers[L], layers[L + 1], edges, TRUE, degree)],
            LAMBDA ordered : SweepUp(ordered, L - 1, max_layer, edges, degree))

SWEEPS == 4

RECURSIVE Sweeps(_, _, _, _, _)
Sweeps(layers, k, max_layer, edges, degree) ==
  IF k = 0 THEN layers
  ELSE With(SweepDown(layers, 1, max_layer, edges, degree), LAMBDA down :
       With(SweepUp(down, max_layer - 1, max_layer, edges, degree), LAMBDA up :
         Sweeps(up, k - 1, max_layer, edges, degree)))

RECURSIVE SweepHistory(_, _, _, _, _)
\* the values the local layers takes: history, then what each of the k sweeps
\* down and up that follow makes of the last of them
SweepHistory(history, k, max_layer, edges, degree) ==
  IF k = 0 THEN history
  ELSE With(Sweeps(history[Len(history)], 1, max_layer, edges, degree), LAMBDA swept :
         SweepHistory(Append(history, swept), k - 1, max_layer, edges, degree))

\* approx_width: 9 px per character, capped, plus padding
approx_width(label, is_topic) ==
  Min2(IF is_topic THEN 260 ELSE 220, 9 * Max2(1, Len(label))) + 32

LAYER_GAP == 40

\* span of one layer: total width plus the gaps between its nodes
LayerSpan(nodes_in_layer, topic) ==
  SumSeq([i \in DOMAIN nodes_in_layer |-> approx_width(nodes_in_layer[i], nodes_in_layer[i] = topic)])
    + LAYER_GAP * Max2(0, Len(nodes_in_layer) - 1)

\* twice the centre x of the i-th node of a layer, the layer centred at 0
CenterX2(nodes_in_layer, i, topic) ==
  LET w(j) == approx_width(nodes_in_layer[j], nodes_in_layer[j] = topic)
      before == SumSeq([j \in 1..(i - 1) |-> w(j) + LAYER_GAP])
  IN -LayerSpan(nodes_in_layer, topic) + 2 * before + w(i)

\* y of layer L when every layer is put on the same side of the topic
LayerYOneSide(L, max_layer) ==
  IF L = 0 THEN 0 ELSE DivT(L * 9000, Max2(1, max_layer))

\* y of layer L: 0 for the topic, then +d, -2d, +3d, ... with d = 0.9 / max_layer
LayerY(L, max_layer) ==
  IF L = 0 THEN 0
  ELSE (IF L % 2 = 1 THEN 1 ELSE -1) * DivT(L * 9000, Max2(1, max_layer))

\* lines 806-846: the nodes, the relationships between them, the adjacency,
\* and the layer and degree of every node
SugiyamaGraph(topic, concepts, relationships) ==
  LET nodes == <<topic>> \o concepts
      node_set == SeqToSet(nodes)
      rels == SelectSeq(relationships, LAMBDA r : r.from \in node_set /\ r.to \in node_set)
      adj == Adjacency(node_set, rels)
  IN With(LayerOf(topic, node_set, adj), LAMBDA layer :
       [nodes |-> nodes, rels |-> rels, layer |-> layer,
        max_layer |-> SetMax({layer[n] : n \in node_set}),
        degree |-> AsMap([n \in node_set |-> Cardinality(adj[n])])])

\* positions[n] of the node n of layer L, whose nodes are nodes_in_layer
NodePosition(n, L, nodes_in_layer, topic, max_span, max_layer) ==
  [x |-> Clamp(-9500, 9500,
               IF max_span = 0 THEN 0
               ELSE DivT(CenterX2(nodes_in_layer, IndexOf(nodes_in_layer, n) + 1, topic) * SCALE,
                         max_span)),
   y |-> Clamp(-9500, 9500, LayerY(L, max_layer))]

\* _generate_layout_sugiyama
generate_layout_sugiyama(topic, concepts, relationships) ==
  IF concepts = <<>>
  THEN [algorithm |-> "sugiyama", ok |-> TRUE, positions |-> EmptyMap,
        layers |-> <<>>, layer_of |-> EmptyMap, sweeps |-> <<>>]
  ELSE
    With(SugiyamaGraph(topic, concepts, relationships), LAMBDA g :
    With(InitialLayers(g.nodes, g.layer, g.degree, g.max_layer), LAMBDA initial :
    With(DirEdges(g.rels, g.layer), LAMBDA dir_edges :
    With(SweepHistory(<<initial>>, SWEEPS, g.max_layer, dir_edges, g.degree), LAMBDA history :
    With(history[Len(history)], LAMBDA layers :
    With(SetMax({LayerSpan(layers[L], topic) : L \in 0..g.max_layer}), LAMBDA max_span :
      [algorithm |-> "sugiyama", ok |-> TRUE,
       positions |-> AsMap([n \in UNION {SeqToSet(layers[L]) : L \in 0..g.max_layer} |->
                       NodePosition(n, g.layer[n], layers[g.layer[n]], topic,
                                    max_span, g.max_layer)]),
       layers |-> layers, layer_of |-> g.layer, sweeps |-> history]))))))

\* ------------------------------------------------------------------ trigonometry
PI == 31416
TWO_PI == 62832
HALF_PI == 15708

\* the angle a brought into [-pi, pi)
NormAngle(a) == ((a + PI) % TWO_PI) - PI

\* sin x for |x| <= pi/2, by its series up to x^7:
\* x (1 - x^2/6 (1 - x^2/20 (1 - x^2/42)))
SinR(x) ==
  With(MulS(x, x), LAMBDA x2 :
    MulS(x, SCALE - MulS(DivT(x2, 6),
                         SCALE - MulS(DivT(x2, 20), SCALE - DivT(x2, 42)))))

\* math.sin
Sin(a) ==
  With(NormAngle(a), LAMBDA r :
    SinR(IF r > HALF_PI THEN PI - r ELSE IF r < -HALF_PI THEN -PI - r ELSE r))

\* math.cos
Cos(a) == Sin(a + HALF_PI)

\* ------------------------------------------------------------------ random
\* The module-level generator of Python's random: a stream of random() values
\* and a position in it.  random.seed(42) selects the stream "seed42" at
\* position 0; an interpreter that never called random.seed runs on a stream
\* seeded from the operating system, any of OsStreams.
Seed42Stream ==
  <<6394, 250, 2750, 2232, 7364, 6766, 8921, 869, 4219, 297, 2186, 5053, 265,
    1988, 6498, 5449, 2204, 5892, 8094, 64, 8058, 6981, 3402, 1554, 9572, 3365,
    927, 967, 8474, 6037, 8071, 7297, 5362, 9731, 3785, 5520, 8294, 6185, 8617,
    5773, 7045, 458, 2278, 2893, 797, 2327, 1010, 2779, 6356, 3648, 3701, 2095,
    2669, 9366, 6480, 6091, 1711, 7291, 1634, 3794, 9895, 6399, 5569, 6846,
    8428, 7759, 2290, 321, 3154, 2677, 2109, 9429, 8763, 3146, 6554, 3956, 9145,
    4588, 2648, 2466, 5613, 2627, 5845, 8978, 3994, 2193, 9975, 5095, 909, 471,
    1096, 6274, 7920, 4221, 635, 3816, 9961, 5291, 9710, 8607, 114, 7207, 6817,
    5369, 2668, 6409, 1115, 4347, 4537, 9538, 8758, 2633, 5005, 1786, 9126,
    8705, 2984, 6389, 6089, 1528, 7625, 5393, 7786, 5303, 5, 3241, 194, 9290>>

OsStreamA ==
  <<1343, 8474, 7637, 2550, 4954, 4494, 6515, 7887, 938, 283, 8357, 4327, 7622,
    21, 4453, 7215, 2287, 9452, 9014, 305, 254, 5414, 9391, 3812, 2165, 4221,
    290, 2216, 4378, 4958, 2330, 2308, 2187, 4596, 2897, 214, 8375, 5564, 6422,
    1859, 9925, 8599, 1208, 3326, 7214, 7111, 9364, 4221, 8300, 6703, 3033,
    5875, 8824, 8461, 5052, 5890, 345, 2427, 7974, 4143, 1730, 5487, 7030, 6744>>

OsStreamB ==
  <<9560, 9478, 565, 848, 8354, 7359, 6697, 3081, 6059, 6068, 5812, 1583, 4306,
    3935, 7230, 9948, 9493, 5441, 4448, 2682, 359, 274, 4648, 3184, 3800, 8917,
    5257, 5605, 2361, 238, 3251, 1366, 5102, 9986, 6744, 1818, 8935, 7967, 7344,
    9065, 7628, 7897, 3537, 9809, 9619, 1611, 7540, 7151, 4614, 5303, 4900,
    9248, 5008, 8315, 3539, 8828, 8997, 4610, 5677, 9203, 7237, 4866, 2218, 3246>>

OsStreams == {"osA", "osB"}

StreamTable(stream) ==
  CASE stream = "seed42" -> Seed42Stream
    [] stream = "osA" -> OsStreamA
    [] stream = "osB" -> OsStreamB

\* the k-th random() after position pos of a stream (k from 0)
Random(stream, pos, k) ==
  With(StreamTable(stream), LAMBDA t : t[((pos + k) % Len(t)) + 1])

\* random.uniform(a, b) = a + (b - a) * random()
Uniform(a, b, r) == a + MulS(b - a, r)

\* the point at radius rad and angle ang
Polar(rad, ang) == [x |-> MulS(rad, Cos(ang)), y |-> MulS(rad, Sin(ang))]

\* ------------------------------------------------------------------ radial layout
TargetCircles(total_concepts) ==
  IF total_concepts <= 10 THEN 2 ELSE IF total_concepts <= 20 THEN 3 ELSE 4

\* the concepts dealt to the rings in turn, one ring after the other
RingInTurn(i, total_concepts) == (i % TargetCircles(total_concepts)) + 1

\* concept_layers[concept] of the concept at index i (from 0)
RingOfIndex(i, total_concepts) ==
  LET target_circles == TargetCircles(total_concepts)
      concepts_per_circle == total_concepts \div target_circles
  IN IF 10 * i < 7 * concepts_per_circle THEN 1
     ELSE IF 10 * i < 18 * concepts_per_circle THEN 2
     ELSE IF i < 3 * concepts_per_circle THEN 3
     ELSE Min2(4, target_circles)

\* lines 1466-1493: the position of the concept at index i; ring[j] is the
\* ring of the concept at index j and members[r] the indices of ring r.
\* random.uniform is called once per concept of a ring of two or more
\* concepts, ring after ring
RadialPosition(i, ring, members, stream, pos) ==
  LET m == members[ring[i]]
      radius == Min2(18000 + (ring[i] - 1) * Min2(12000, DivT(35000, SetMax(SeqToSet(ring)))),
                     50000)
      drawsBefore ==
        Cardinality({j \in DOMAIN ring :
                       /\ Len(members[ring[j]]) > 1
                       /\ (ring[j] < ring[i] \/ (ring[j] = ring[i] /\ j < i))})
      angle == DivT(TWO_PI * IndexOf(m, i), Len(m))
      angle_offset == IF Len(m) > 1
                      THEN Uniform(-1000, 1000, Random(stream, pos, drawsBefore))
                      ELSE 0
  IN Polar(radius, angle + angle_offset)

\* _generate_layout_radial; the graph and the breadth-first search it starts
\* with are discarded by "concept_layers = {}" and leave no trace.
\* Returns the layout and the number of random() calls made.
generate_layout_radial(topic, concepts, relationships, stream, pos) ==
  IF concepts = <<>>
  THEN [algorithm |-> "radial", ok |-> TRUE,
        positions |-> (topic :> [x |-> 0, y |-> 0]),
        layers |-> <<>>, layer_of |-> EmptyMap, draws |-> 0]
  ELSE
    With(AsSeq([i \in DOMAIN concepts |-> RingOfIndex(i - 1, Len(concepts))]), LAMBDA ring :
    With(AsMap([r \in SeqToSet(ring) |->
                  SelectSeq([i \in DOMAIN ring |-> i], LAMBDA i : ring[i] = r)]),
         LAMBDA members :
      [algorithm |-> "radial", ok |-> TRUE,
       positions |->
         AsMap([c \in SeqToSet(concepts) |->
                  RadialPosition(IndexOf(concepts, c) + 1, ring, members, stream, pos)])
         @@ (topic :> [x |-> 0, y |-> 0]),
       layers |-> [r \in DOMAIN members |->
                     [j \in DOMAIN members[r] |-> concepts[members[r][j]]]],
       layer_of |-> [c \in SeqToSet(concepts) |-> ring[IndexOf(concepts, c) + 1]],
       draws |-> Cardinality({j \in DOMAIN ring : Len(members[ring[j]]) > 1})]))

\* ------------------------------------------------------------------ sector layout
\* str(k) of a value that is neither a str nor a dict
OtherRepr == <<"[", "0", "]">>

\* k.get('name') if isinstance(k, dict) else str(k); a dict without a str
\* name carries s = "" and is dropped with the blank names
NameOf(item) == IF item.tag = "other" THEN OtherRepr ELSE item.s

\* isinstance(k, str) and k.strip()
NonBlank(s) == \E i \in DOMAIN s : ~IsSpace(s[i])

NamesOf(items) ==
  SelectSeq([i \in DOMAIN items |-> NameOf(items[i])], NonBlank)

\* (parts_map.get(k) or []) reduced to the names of its parts
PartsOf(parts_map, k) ==
  IF k \in DOMAIN parts_map THEN NamesOf(parts_map[k]) ELSE <<>>

\* positions after the assignments writes[1], writes[2], ...: the last one wins
LastWrites(writes) ==
  AsMap([n \in {writes[j].n : j \in DOMAIN writes} |->
     writes[SetMax({j \in DOMAIN writes : writes[j].n = n})].p])

\* the elements of s without repetition, in order of first occurrence
Distinct(s) ==
  LET firsts == SelectSeq([i \in DOMAIN s |-> i],
                          LAMBDA i : \A j \in 1..(i - 1) : s[j] # s[i])
  IN [i \in DOMAIN firsts |-> s[firsts[i]]]

RECURSIVE Flatten(_)
\* the sequences of ss one after the other
Flatten(ss) ==
  IF ss = <<>> THEN <<>>
  ELSE IF Len(ss) = 1 THEN ss[1]
  ELSE Flatten(SubSeq(ss, 1, Len(ss) \div 2))
         \o Flatten(SubSeq(ss, Len(ss) \div 2 + 1, Len(ss)))

CeilDiv(a, b) == (a + b - 1) \div b

\* lines 1166-1199: the radii and the angular span of the sectors
SectorGeometry(keys, key_parts) ==
  LET S == Max2(1, Len(keys))
      total_concepts == SumSeq([i \in DOMAIN Distinct(keys) |->
                                  Len(key_parts[Distinct(keys)[i]])])
      max_concepts_per_group == SetMax({Len(key_parts[k]) : k \in SeqToSet(keys)})
      inner_r == Max2(2000, Min2(5000, DivT(8000, S)))
      canvas_utilization == Min2(9500, 7000 + DivT(total_concepts * SCALE, 60))
      radial_layers == Max2(3, CeilDiv(max_concepts_per_group, 4))
  IN [sector_span |-> DivT(TWO_PI, S),
      inner_r |-> inner_r,
      radial_layers |-> radial_layers,
      radial_spacing |-> DivT(canvas_utilization - inner_r - 1000, radial_layers),
      max_r |-> canvas_utilization,
      gap_factor |-> Max2(6000, Min2(9000, SCALE - (max_concepts_per_group - 3) * 500)),
      bound |-> MulS(canvas_utilization, 10500)]

\* lines 1205-1232: the part at index idx of the n_parts parts of the key at
\* angle center_ang
KeyPartPosition(g, center_ang, idx, n_parts) ==
  LET half_span == DivT(MulS(g.sector_span, g.gap_factor), 2)
      ang == IF n_parts = 1 THEN center_ang
             ELSE center_ang - half_span + DivT(idx * 2 * half_span, n_parts - 1)
      base_radius == g.inner_r + g.radial_spacing + (idx % g.radial_layers) * g.radial_spacing
      rad == Min2(g.max_r, base_radius + (idx \div g.radial_layers) * 500)
  IN With(Polar(rad, ang), LAMBDA p :
       [x |-> Clamp(-g.bound, g.bound, p.x), y |-> Clamp(-g.bound, g.bound, p.y)])

\* the body of _generate_layout_sectors_from_keys_parts for a non-empty keys
SectorsFromKeys(topic, keys, parts_map) ==
  With(AsMap([k \in SeqToSet(keys) |-> PartsOf(parts_map, k)]), LAMBDA key_parts :
  With(SectorGeometry(keys, key_parts), LAMBDA g :
    [algorithm |-> "sectors", ok |-> TRUE,
     positions |-> LastWrites(
        <<[n |-> topic, p |-> [x |-> 0, y |-> 0]]>>
        \o Flatten([i \in DOMAIN keys |->
             <<[n |-> keys[i], p |-> Polar(g.inner_r, (i - 1) * g.sector_span)]>>
             \o [j \in 1..Len(key_parts[keys[i]]) |->
                   [n |-> key_parts[keys[i]][j],
                    p |-> KeyPartPosition(g, (i - 1) * g.sector_span, j - 1,
                                          Len(key_parts[keys[i]]))]]])),
     layers |-> <<>>, layer_of |-> EmptyMap, draws |-> 0, seeded |-> FALSE]))

\* key_positions for S keys: x, y and atan2(y, x) of each entry
KeyPositions(S) ==
  IF S <= 4
  THEN <<[x |-> 6000, y |-> 4000, a |-> 5880], [x |-> -5000, y |-> 5000, a |-> 23562],
         [x |-> -6000, y |-> -4000, a |-> -25536], [x |-> 5000, y |-> -5000, a |-> -7854]>>
  ELSE IF S <= 6
  THEN <<[x |-> 7000, y |-> 2000, a |-> 2783], [x |-> 3500, y |-> 6000, a |-> 10427],
         [x |-> -3500, y |-> 6000, a |-> 20989], [x |-> -7000, y |-> 2000, a |-> 28633],
         [x |-> -3500, y |-> -6000, a |-> -20989], [x |-> 3500, y |-> -6000, a |-> -10427]>>
  ELSE AsSeq([i \in 1..S |->
          LET angle == DivT((i - 1) * TWO_PI, S) - HALF_PI
              radius == 5000 + MulS(2000, Sin((i - 1) * 13000))
          IN [x |-> MulS(radius, Cos(angle)), y |-> MulS(radius, Sin(angle)),
              a |-> NormAngle(angle)]])

\* what the raw concepts and relationships make _generate_layout_sectors raise:
\* set() of an unhashable concept, .get of a relationship that is no dict,
\* "in node_set" of an unhashable endpoint
SectorsRaises(topic, concepts, relationships) ==
  \/ \E i \in DOMAIN concepts : concepts[i].tag # "str"
  \/ \E i \in DOMAIN relationships :
       \/ relationships[i].tag # "dict"
       \/ relationships[i].from.tag # "str"
       \/ /\ relationships[i].from.s \in {topic} \cup {concepts[j].s : j \in DOMAIN concepts}
          /\ relationships[i].to.tag # "str"

\* sorted(..., key=lambda n: (-degree[n], n))
ByDegree(s, degree) == SortBy(s, LAMBDA a, b : DegreeLess(degree, a, b))

\* lines 975-990: the concepts as given, the adjacency and the degrees
SectorGraph(topic, raw_concepts, raw_relationships) ==
  LET concepts == [i \in DOMAIN raw_concepts |-> raw_concepts[i].s]
      node_set == SeqToSet(<<topic>> \o concepts)
      rels == SelectSeq(
                [i \in DOMAIN raw_relationships |->
                   [from |-> raw_relationships[i].from.s, to |-> raw_relationships[i].to.s]],
                LAMBDA r : r.from \in node_set /\ r.to \in node_set)
  IN With(Adjacency(node_set, rels), LAMBDA adj :
       [concepts |-> concepts, adj |-> adj,
        degree |-> AsMap([n \in node_set |-> Cardinality(adj[n])])])

\* lines 992-998: the neighbours of the topic, or else the concepts of highest degree
SectorKeys(topic, concepts, adj, degree) ==
  With(ByDegree(SortBy(Distinct(SelectSeq(<<topic>> \o concepts,
                                          LAMBDA n : n \in adj[topic])), StrLess),
                degree), LAMBDA topic_neighbors :
    IF topic_neighbors = <<>>
    THEN Take(ByDegree(concepts, degree), Max2(4, Min2(6, Len(concepts))))
    ELSE Take(topic_neighbors, Max2(4, Min2(8, Len(topic_neighbors)))))

\* lines 1000-1012: every remaining concept goes to the key it is linked to,
\* or else to the first key
SectorKeyParts(concepts, keys, adj, degree) ==
  AsMap([k \in SeqToSet(keys) |->
    SelectSeq(concepts, LAMBDA c :
      /\ c \notin SeqToSet(keys)
      /\ With(SelectSeq(keys, LAMBDA k2 : c \in adj[k2]), LAMBDA linked_keys :
           ByDegree(IF linked_keys # <<>> THEN linked_keys ELSE keys, degree)[1] = k))])

\* lines 1084-1118: the part at index idx of the n_parts parts of the key at
\* key_pos, r the three random() values drawn for it
SectorPartPosition(key_pos, idx, n_parts, r) ==
  LET small == n_parts <= 3
      base_distance == IF small THEN 1500 + 1000 * idx ELSE 2000 + 1500 * (idx \div 4)
      angle_range == IF small THEN PI ELSE 47124
      angle == key_pos.a + ((idx * 50831) % angle_range) - DivT(angle_range, 2)
  IN With(Polar(base_distance + Uniform(-500, 1000, r[1]), angle), LAMBDA d :
       [x |-> Clamp(-9000, 9000,
                    MulS(key_pos.x + d.x + Uniform(-800, 800, r[2]), 12000)),
        y |-> Clamp(-9000, 9000,
                    MulS(key_pos.y + d.y + Uniform(-800, 800, r[3]), 12000))])

\* the assignments to positions after the topic's: the keys, then the parts of
\* every key, each part drawing the next three values of stream
SectorWrites(keys, key_parts, key_positions, stream) ==
  [i \in DOMAIN keys |->
     [n |-> keys[i], p |-> [x |-> key_positions[i].x, y |-> key_positions[i].y]]]
  \o Flatten([i \in DOMAIN keys |->
       [j \in 1..Len(key_parts[keys[i]]) |->
          [n |-> key_parts[keys[i]][j],
           p |-> SectorPartPosition(
                   key_positions[SetMax({i2 \in DOMAIN keys : keys[i2] = keys[i]})],
                   j - 1, Len(key_parts[keys[i]]),
                   SubSeq(stream,
                          3 * (SumSeq([i2 \in 1..(i - 1) |-> Len(key_parts[keys[i2]])]) + j) - 2,
                          3 * (SumSeq([i2 \in 1..(i - 1) |-> Len(key_parts[keys[i2]])]) + j)))]]])

\* _generate_layout_sectors on the raw concepts and relationships of the spec;
\* values are the random() values its calls of random.uniform get, in order:
\* Seed42Stream when nothing else draws between its random.seed(42) and them
generate_layout_sectors(topic, raw_concepts, raw_relationships, values) ==
  IF raw_concepts = <<>>
  THEN [algorithm |-> "sectors", ok |-> TRUE, positions |-> EmptyMap,
        layers |-> <<>>, layer_of |-> EmptyMap, draws |-> 0, seeded |-> FALSE]
  ELSE IF SectorsRaises(topic, raw_concepts, raw_relationships)
  THEN [algorithm |-> "sectors", ok |-> FALSE, positions |-> EmptyMap,
        layers |-> <<>>, layer_of |-> EmptyMap, draws |-> 0, seeded |-> FALSE]
  ELSE
    With(SectorGraph(topic, raw_concepts, raw_relationships), LAMBDA g :
    With(SectorKeys(topic, g.concepts, g.adj, g.degree), LAMBDA keys :
    With(SectorKeyParts(g.concepts, keys, g.adj, g.degree), LAMBDA key_parts :
    With(SectorWrites(keys, key_parts, KeyPositions(Max2(1, Len(keys))), values),
         LAMBDA writes :
      [algorithm |-> "sectors", ok |-> TRUE,
       positions |-> LastWrites(<<[n |-> topic, p |-> [x |-> 0, y |-> 0]]>> \o writes),
       layers |-> <<>>, layer_of |-> EmptyMap,
       draws |-> 3 * (Len(writes) - Len(keys)), seeded |-> TRUE]))))

\* _generate_layout_sectors_from_keys_parts
generate_layout_sectors_from_keys_parts(topic, sp, values) ==
  LET keys == NamesOf(sp.keys.items)
  IN IF keys = <<>>
     THEN generate_layout_sectors(topic,
             IF sp.concepts.tag = "list" THEN sp.concepts.items ELSE <<>>,
             IF sp.relationships.tag = "list" THEN sp.relationships.items ELSE <<>>,
             values)
     ELSE IF sp.key_parts.tag = "other"
     THEN [algorithm |-> "sectors", ok |-> FALSE, positions |-> EmptyMap,
           layers |-> <<>>, layer_of |-> EmptyMap, draws |-> 0, seeded |-> FALSE]
     ELSE SectorsFromKeys(topic, keys,
             IF sp.key_parts.tag = "dict" THEN sp.key_parts.map ELSE EmptyMap)

\* ------------------------------------------------------------------ canvas size
\* estimate_text_box: width and height of the box drawn around a label
estimate_text_box(text, is_topic) ==
  LET font_size == IF is_topic THEN 26 ELSE 22
      max_text_width10 == IF is_topic THEN 3500 ELSE 3000
      \* tenths of a pixel: char_width = font_size * 0.6
      text_width10 == Len(text) * font_size * 6
      wraps == text_width10 > max_text_width10
      lines == IF wraps THEN Max2(1, (text_width10 \div max_text_width10) + 1) ELSE 1
      actual10 == IF wraps THEN max_text_width10 ELSE text_width10
      line_height == (font_size * 12) \div 10
  IN [w |-> (actual10 + 320) \div 10, h |-> lines * line_height + 20]

FallbackDimensions ==
  [baseWidth |-> 800, baseHeight |-> 600, width |-> 800, height |-> 600, padding |-> 100]

\* _compute_recommended_dimensions_from_layout
compute_recommended_dimensions_from_layout(lay, topic, concepts) ==
  LET positions == lay.positions
  IN IF DOMAIN positions = {} THEN FallbackDimensions
     ELSE
       LET topic_box == estimate_text_box(topic, TRUE)
           boxes == [i \in DOMAIN concepts |-> estimate_text_box(concepts[i], FALSE)]
           xs == {positions[n].x : n \in DOMAIN positions}
           ys == {positions[n].y : n \in DOMAIN positions}
           coord_span_x == Max2(4000, SetMax(xs) + SetMax({-x : x \in xs}))
           coord_span_y == Max2(4000, SetMax(ys) + SetMax({-y : y \in ys}))
           target_scale == 180
           max_concept_w == IF concepts = <<>> THEN 100
                            ELSE SetMax({boxes[i].w : i \in DOMAIN boxes})
           max_concept_h == IF concepts = <<>> THEN 40
                            ELSE SetMax({boxes[i].h : i \in DOMAIN boxes})
           node_margin_x == Max2(topic_box.w, max_concept_w) \div 2
           node_margin_y == Max2(topic_box.h, max_concept_h) \div 2
           base_padding == 80
           total_width == coord_span_x * target_scale
                            + (2 * node_margin_x + 2 * base_padding) * SCALE
           total_height == coord_span_y * target_scale
                            + (2 * node_margin_y + 2 * base_padding) * SCALE
           num_concepts == Len(concepts)
           min_width == Max2(600, 400 + num_concepts * 10)
           min_height == Max2(500, 350 + num_concepts * 8)
           width_px == Clamp(min_width * SCALE, 1400 * SCALE, total_width) \div SCALE
           height_px == Clamp(min_height * SCALE, 1200 * SCALE, total_height) \div SCALE
       IN [baseWidth |-> width_px, baseHeight |-> height_px,
           width |-> width_px, height |-> height_px, padding |-> base_padding]

\* ------------------------------------------------------------------ enhance_spec
Pending == [pending |-> TRUE]
Failure(msg) == [success |-> FALSE, error |-> msg]

\* spec.get("concepts") or []
ListOrEmpty(v) == IF v.tag \in {"none", "falsy"} THEN [tag |-> "list", items |-> <<>>] ELSE v

\* lines 42-52: the error the checks return, "" when they pass
ValidationError(sp) ==
  IF ~sp.is_dict THEN "Spec must be a dictionary"
  ELSE IF sp.topic.tag # "str" \/ ~NonBlank(sp.topic.s) THEN "Invalid or missing 'topic'"
  ELSE IF ListOrEmpty(sp.concepts).tag # "list" \/ ListOrEmpty(sp.relationships).tag # "list"
       THEN "'concepts' and 'relationships' must be lists"
  ELSE ""

Validate ==
  /\ pc = "call"
  /\ IF ValidationError(spec) # ""
     THEN /\ result' = Failure(ValidationError(spec))
          /\ pc' = "done"
          /\ UNCHANGED normalized_topic
     ELSE /\ normalized_topic' = clean_text(spec.topic, MAX_LABEL_LEN)
          /\ pc' = "concepts"
          /\ UNCHANGED result
  /\ UNCHANGED <<spec, normalized_concepts, seen, canon_to_display,
                 sanitized_relationships, missing_concepts, layout, rng, pass,
                 first_result>>
  /\ UNCHANGED other_calls

\* lines 65-81
DedupeConcepts ==
  /\ pc = "concepts"
  /\ \E st \in {NormalizeConcepts(ListOrEmpty(spec.concepts).items, normalized_topic)} :
       /\ normalized_concepts' = st.nc
       /\ seen' = st.seen
       /\ canon_to_display' = st.c2d
  /\ pc' = "relationships"
  /\ UNCHANGED <<spec, normalized_topic, sanitized_relationships, missing_concepts,
                 layout, result, rng, pass, first_result>>
  /\ UNCHANGED other_calls

\* lines 83-114
SanitizeRels ==
  /\ pc = "relationships"
  /\ \E st \in {SanitizeRelationships(ListOrEmpty(spec.relationships).items,
                                      normalized_topic, seen, canon_to_display)} :
       /\ sanitized_relationships' = st.sr
       /\ missing_concepts' = st.missing
  /\ pc' = "promote"
  /\ UNCHANGED <<spec, normalized_topic, normalized_concepts, seen, canon_to_display,
                 layout, result, rng, pass, first_result>>
  /\ UNCHANGED other_calls

\* lines 117-135, one turn of "for mc_canon in list(missing_concepts)": a set
\* of str is visited in an order that changes from one interpreter to the next
PromoteMissing ==
  /\ pc = "promote"
  /\ \E mc \in missing_concepts :
       \E mc_display \in {FindDisplay(ListOrEmpty(spec.relationships).items, 1, mc)} :
          /\ missing_concepts' = missing_concepts \ {mc}
          /\ IF PromoteGuard(normalized_concepts, seen, mc) /\ mc_display # <<>>
             THEN /\ normalized_concepts' = Append(normalized_concepts, mc_display)
                  /\ seen' = seen \cup {mc}
                  /\ canon_to_display' = (mc :> mc_display) @@ canon_to_display
             ELSE UNCHANGED <<normalized_concepts, seen, canon_to_display>>
  /\ UNCHANGED <<spec, pc, normalized_topic, sanitized_relationships, layout, result,
                 rng, pass, first_result>>
  /\ UNCHANGED other_calls

\* lines 137-143
FinalFilter ==
  /\ pc = "promote"
  /\ missing_concepts = {}
  /\ sanitized_relationships' =
       FilterRelationships(sanitized_relationships, normalized_concepts, normalized_topic)
  /\ pc' = "layout"
  /\ UNCHANGED <<spec, normalized_topic, normalized_concepts, seen, canon_to_display,
                 missing_concepts, layout, result, rng, pass, first_result>>
  /\ UNCHANGED other_calls

\* the layout is kept, or the exception it raised is turned into a failure
LayoutDone(lay) ==
  IF lay.ok
  THEN /\ layout' = lay
       /\ pc' = "dimensions"
       /\ UNCHANGED result
  ELSE /\ result' = Failure("ConceptMapAgent failed")
       /\ pc' = "done"
       /\ UNCHANGED layout

\* lines 146-147
LayoutSectors ==
  /\ pc = "layout"
  /\ spec.keys.tag = "list"
  /\ \E lay \in {generate_layout_sectors_from_keys_parts(normalized_topic, spec,
                                                          Seed42Stream)} :
       /\ LayoutDone(lay)
       /\ rng' = IF lay.seeded THEN [stream |-> "seed42", pos |-> lay.draws] ELSE rng
  /\ UNCHANGED <<spec, normalized_topic, normalized_concepts, seen, canon_to_display,
                 sanitized_relationships, missing_concepts, pass, first_result>>
  /\ UNCHANGED other_calls

\* lines 148-150 tried before the test of line 146: _method before keys
LayoutRadialFirst ==
  /\ pc = "layout"
  /\ spec.method = "enhanced_30"
  /\ \E stream \in (IF rng.stream = "os" THEN OsStreams ELSE {rng.stream}) :
       \E lay \in {generate_layout_radial(normalized_topic, normalized_concepts,
                                          sanitized_relationships, stream, rng.pos)} :
         /\ LayoutDone(lay)
         /\ rng' = IF lay.draws = 0 THEN rng
                   ELSE [stream |-> stream,
                         pos |-> (rng.pos + lay.draws) % Len(StreamTable(stream))]
  /\ UNCHANGED <<spec, normalized_topic, normalized_concepts, seen, canon_to_display,
                 sanitized_relationships, missing_concepts, pass, first_result>>
  /\ UNCHANGED other_calls

\* lines 148-150
LayoutRadial ==
  /\ pc = "layout"
  /\ spec.keys.tag # "list"
  /\ spec.method = "enhanced_30"
  /\ \E stream \in (IF rng.stream = "os" THEN OsStreams ELSE {rng.stream}) :
       \E lay \in {generate_layout_radial(normalized_topic, normalized_concepts,
                                          sanitized_relationships, stream, rng.pos)} :
         /\ LayoutDone(lay)
         /\ rng' = IF lay.draws = 0 THEN rng
                   ELSE [stream |-> stream,
                         pos |-> (rng.pos + lay.draws) % Len(StreamTable(stream))]
  /\ UNCHANGED <<spec, normalized_topic, normalized_concepts, seen, canon_to_display,
                 sanitized_relationships, missing_concepts, pass, first_result>>
  /\ UNCHANGED other_calls

\* lines 151-156
LayoutSugiyama ==
  /\ pc = "layout"
  /\ spec.keys.tag # "list"
  /\ spec.method # "enhanced_30"
  /\ LayoutDone(generate_layout_sugiyama(normalized_topic, normalized_concepts,
                                         sanitized_relationships))
  /\ UNCHANGED <<spec, normalized_topic, normalized_concepts, seen, canon_to_display,
                 sanitized_relationships, missing_concepts, rng, pass, first_result>>
  /\ UNCHANGED other_calls

\* lines 158-187
Return ==
  /\ pc = "dimensions"
  /\ result' =
       [success |-> TRUE,
        spec |-> [topic |-> normalized_topic,
                  concepts |-> normalized_concepts,
                  relationships |-> sanitized_relationships,
                  layout |-> layout,
                  recommended_dimensions |->
                    compute_recommended_dimensions_from_layout(
                      layout, normalized_topic, normalized_concepts),
                  method |-> spec.method]]
  /\ pc' = "done"
  /\ UNCHANGED <<spec, normalized_topic, normalized_concepts, seen, canon_to_display,
                 sanitized_relationships, missing_concepts, layout, rng, pass,
                 first_result>>
  /\ UNCHANGED other_calls

\* the caller passes the spec it got back to enhance_spec again
Resubmit ==
  /\ pc = "done"
  /\ pass = 1
  /\ result.success
  /\ spec' = [is_dict |-> TRUE,
              topic |-> PyStr(result.spec.topic),
              concepts |-> [tag |-> "list",
                            items |-> [i \in DOMAIN result.spec.concepts |->
                                         PyStr(result.spec.concepts[i])]],
              relationships |->
                [tag |-> "list",
                 items |-> [i \in DOMAIN result.spec.relationships |->
                              [tag |-> "dict",
                               from |-> PyStr(result.spec.relationships[i].from),
                               to |-> PyStr(result.spec.relationships[i].to),
                               label |-> PyStr(result.spec.relationships[i].label)]]],
              keys |-> [tag |-> "none", items |-> <<>>],
              key_parts |-> [tag |-> "none", map |-> EmptyMap],
              method |-> result.spec.method]
  /\ first_result' = result
  /\ pass' = 2
  /\ pc' = "call"
  /\ result' = Pending
  /\ normalized_topic' = <<>>
  /\ normalized_concepts' = <<>>
  /\ seen' = {}
  /\ canon_to_display' = EmptyMap
  /\ sanitized_relationships' = <<>>
  /\ missing_concepts' = {}
  /\ layout' = Pending
  /\ UNCHANGED rng
  /\ UNCHANGED other_calls

\* ------------------------------------------------------------------ calls side by side
\* most steps another call may take on the shared generator while this one runs
MaxShared == 4

\* the number of random() values the sector layout of the call draws
SectorDraws ==
  generate_layout_sectors_from_keys_parts(normalized_topic, spec, Seed42Stream).draws

\* lines 1018-1019 in a call that runs beside others: random.seed(42)
SeedSectors ==
  /\ pc = "layout"
  /\ spec.keys.tag = "list"
  /\ generate_layout_sectors_from_keys_parts(normalized_topic, spec, Seed42Stream).seeded
  /\ rng' = [stream |-> "seed42", pos |-> 0]
  /\ drawn' = <<>>
  /\ pc' = "drawing"
  /\ UNCHANGED <<spec, normalized_topic, normalized_concepts, seen, canon_to_display,
                 sanitized_relationships, missing_concepts, layout, result, pass,
                 first_result, normalized_children, seen_ids>>

\* lines 1088, 1096, 1097: one random.uniform of the call, on the generator as
\* the calls beside it left it
DrawSectors ==
  /\ pc = "drawing"
  /\ Len(drawn) < SectorDraws
  /\ rng.stream = "seed42"
  /\ drawn' = Append(drawn, Random(rng.stream, rng.pos, 0))
  /\ rng' = [rng EXCEPT !.pos = rng.pos + 1]
  /\ UNCHANGED <<spec, pc, normalized_topic, normalized_concepts, seen,
                 canon_to_display, sanitized_relationships, missing_concepts, layout,
                 result, pass, first_result, normalized_children, seen_ids>>

\* lines 1111-1131: the layout made of the values drawn
FinishSectors ==
  /\ pc = "drawing"
  /\ Len(drawn) = SectorDraws
  /\ LayoutDone(generate_layout_sectors_from_keys_parts(normalized_topic, spec, drawn))
  /\ UNCHANGED <<spec, normalized_topic, normalized_concepts, seen, canon_to_display,
                 sanitized_relationships, missing_concepts, rng, pass, first_result,
                 drawn, normalized_children, seen_ids>>

\* line 1019 in another call: random.seed(42)
OtherSeed ==
  /\ pc = "drawing"
  /\ rng.pos > 0
  /\ rng' = [stream |-> "seed42", pos |-> 0]
  /\ UNCHANGED <<spec, pc, normalized_topic, normalized_concepts, seen,
                 canon_to_display, sanitized_relationships, missing_concepts, layout,
                 result, pass, first_result, drawn, normalized_children, seen_ids>>

\* lines 1088, 1096, 1097 or 1483 in another call: one random.uniform
OtherDraw ==
  /\ pc = "drawing"
  /\ rng.pos < MaxShared
  /\ rng' = [rng EXCEPT !.pos = rng.pos + 1]
  /\ UNCHANGED <<spec, pc, normalized_topic, normalized_concepts, seen,
                 canon_to_display, sanitized_relationships, missing_concepts, layout,
                 result, pass, first_result, drawn, normalized_children, seen_ids>>

\* enhance_spec is given the same spec once more, by another interpreter
\* process: its generator of random is seeded by the operating system again
Rerun ==
  /\ pc = "done"
  /\ pass = 1
  /\ first_result' = result
  /\ pass' = 2
  /\ pc' = "call"
  /\ result' = Pending
  /\ normalized_topic' = <<>>
  /\ normalized_concepts' = <<>>
  /\ seen' = {}
  /\ canon_to_display' = EmptyMap
  /\ sanitized_relationships' = <<>>
  /\ missing_concepts' = {}
  /\ layout' = Pending
  /\ rng' = [stream |-> "os", pos |-> 0]
  /\ UNCHANGED spec
  /\ UNCHANGED other_calls

\* ------------------------------------------------------------------ MindMapAgent
\* MindMapAgent.enhance_spec (src/mind_map_agent.py).  Its spec is
\* [is_dict, topic, children]; a branch is [tag, id, label, children] and a
\* child of a branch [tag, id, label], tag "dict" for a dict.
MAX_BRANCHES == 8
MAX_CHILDREN == 6

RECURSIVE LStrip(_)
LStrip(s) ==
  IF s = <<>> THEN s
  ELSE IF IsSpace(s[1]) THEN LStrip(Tail(s))
  ELSE s

\* clean_text of enhance_spec without its .strip()
unstripped_text(value) == value.s

\* clean_text of enhance_spec: (value or "").strip(), of a str or of None
strip_text(value) == LStrip(RStrip(value.s))

\* child.get("id", "") or child.get("label", "") is a value whose .strip raises
Unstrippable(item) ==
  item.id.tag \notin {"str", "none"} \/ item.label.tag \notin {"str", "none"}

\* the pass of lines 109-123 with the "not in seen_ids" of line 115 left out
NestedStepRepeating(nested_child, st) ==
  IF st.raised \/ st.full \/ nested_child.tag # "dict" THEN st
  ELSE IF Unstrippable(nested_child) THEN [st EXCEPT !.raised = TRUE]
  ELSE With(strip_text(nested_child.id), LAMBDA nested_id :
       With(strip_text(nested_child.label), LAMBDA nested_label :
         IF nested_id # <<>> /\ nested_label # <<>>
         THEN [kept |-> Append(st.kept, [id |-> nested_id, label |-> nested_label]),
               seen |-> st.seen \cup {nested_id},
               raised |-> FALSE,
               full |-> Len(st.kept) + 1 >= MAX_CHILDREN]
         ELSE st))

\* lines 109-123, one pass of "for j, nested_child in enumerate(...)":
\* st is [kept, seen, raised, full]
NestedStep(nested_child, st) ==
  IF st.raised \/ st.full \/ nested_child.tag # "dict" THEN st
  ELSE IF Unstrippable(nested_child) THEN [st EXCEPT !.raised = TRUE]
  ELSE With(strip_text(nested_child.id), LAMBDA nested_id :
       With(strip_text(nested_child.label), LAMBDA nested_label :
         IF nested_id # <<>> /\ nested_label # <<>> /\ nested_id \notin st.seen
         THEN [kept |-> Append(st.kept, [id |-> nested_id, label |-> nested_label]),
               seen |-> st.seen \cup {nested_id},
               raised |-> FALSE,
               full |-> Len(st.kept) + 1 >= MAX_CHILDREN]
         ELSE st))

RECURSIVE NestedLoop(_, _, _, _)
\* the passes over items[lo..hi], the first half and then the second
NestedLoop(items, lo, hi, st) ==
  IF lo > hi THEN st
  ELSE IF lo = hi THEN NestedStep(items[lo], st)
  ELSE With(NestedLoop(items, lo, (lo + hi) \div 2, st), LAMBDA st2 :
         NestedLoop(items, (lo + hi) \div 2 + 1, hi, st2))

\* lines 104-123: the children kept of one branch, seen the ids used so far
NormalizeNested(nested_children_raw, seen0) ==
  IF nested_children_raw.tag # "list"
  THEN [kept |-> <<>>, seen |-> seen0, raised |-> FALSE, full |-> FALSE]
  ELSE NestedLoop(nested_children_raw.items, 1, Len(nested_children_raw.items),
                  [kept |-> <<>>, seen |-> seen0, raised |-> FALSE, full |-> FALSE])

\* the break of lines 131-132 taken one branch late (> for >=)
BranchesFullLate(n) == n > MAX_BRANCHES
\* lines 131-132
BranchesFull(n) == n >= MAX_BRANCHES

\* lines 88-132, one pass of "for i, child in enumerate(children_raw)":
\* st is [kept, seen, raised, full]
BranchStep(child, st) ==
  IF st.raised \/ st.full \/ child.tag # "dict" THEN st
  ELSE IF Unstrippable(child) THEN [st EXCEPT !.raised = TRUE]
  ELSE With(strip_text(child.id), LAMBDA child_id :
       With(strip_text(child.label), LAMBDA child_label :
         IF child_id = <<>> \/ child_label = <<>> \/ child_id \in st.seen THEN st
         ELSE With(NormalizeNested(child.children, st.seen \cup {child_id}), LAMBDA n :
                [kept |-> Append(st.kept, [id |-> child_id, label |-> child_label,
                                            children |-> n.kept]),
                 seen |-> n.seen,
                 raised |-> n.raised,
                 full |-> BranchesFull(Len(st.kept) + 1)])))

RECURSIVE BranchLoop(_, _, _, _)
\* the passes over items[lo..hi], the first half and then the second
BranchLoop(items, lo, hi, st) ==
  IF lo > hi THEN st
  ELSE IF lo = hi THEN BranchStep(items[lo], st)
  ELSE With(BranchLoop(items, lo, (lo + hi) \div 2, st), LAMBDA st2 :
         BranchLoop(items, (lo + hi) \div 2 + 1, hi, st2))

\* lines 83-132
NormalizeChildren(children_raw) ==
  BranchLoop(children_raw, 1, Len(children_raw), [kept |-> <<>>, seen |-> {}, raised |-> FALSE, full |-> FALSE])

\* ----- the layout of a mind map; lengths are in hundredths of a pixel
CENT == 100

\* char_widths of _calculate_text_width, in hundredths of the font size
CharWidth(c) ==
  CASE c \in {"i", "l", "j"} -> 25
    [] c = "I" -> 30
    [] c \in {"f", "t", "r", "1"} -> 35
    [] c \in {"c", "e", "s", "v", "x", "y", "z"} -> 50
    [] c \in {"m", "w", "M", "W"} -> 80
    [] OTHER -> 55

calculate_text_width(text, font_size) ==
  IF text = <<>> THEN 0
  ELSE SumSeq([i \in DOMAIN text |-> CharWidth(text[i]) * font_size])
         + (20 + 2 * Len(text)) * CENT

get_adaptive_font_size(text, node_type) ==
  CASE node_type = "topic" ->
         IF Len(text) <= 10 THEN 28 ELSE IF Len(text) <= 20 THEN 24 ELSE 20
    [] node_type = "branch" ->
         IF Len(text) <= 8 THEN 20 ELSE IF Len(text) <= 15 THEN 18 ELSE 16
    [] OTHER ->
         IF Len(text) <= 6 THEN 16 ELSE IF Len(text) <= 12 THEN 14 ELSE 12

get_adaptive_node_height(text, node_type) ==
  CASE node_type = "topic" ->
         IF Len(text) <= 10 THEN 70 ELSE IF Len(text) <= 20 THEN 60 ELSE 50
    [] node_type = "branch" ->
         IF Len(text) <= 8 THEN 60 ELSE IF Len(text) <= 15 THEN 50 ELSE 45
    [] OTHER ->
         IF Len(text) <= 6 THEN 45 ELSE IF Len(text) <= 12 THEN 40 ELSE 35

get_adaptive_padding(text) ==
  IF Len(text) <= 5 THEN 15 ELSE IF Len(text) <= 15 THEN 20 ELSE 25

get_adaptive_spacing(num_children) ==
  IF num_children <= 2 THEN 15 ELSE IF num_children <= 5 THEN 20 ELSE 25

\* int(base * (1 + (min(num_branches / 4, 1.5) - 1) * 0.2)
\*          * (1 + (min(num_children / 10, 1.3) - 1) * 0.15)), in pixels
calculate_adaptive_base_padding(content_size, num_branches, num_children) ==
  LET base == IF content_size < 300 * CENT THEN 60
              ELSE IF content_size < 500 * CENT THEN 80
              ELSE IF content_size < 800 * CENT THEN 100
              ELSE 120
      branch_factor == 1000 + (Min2(num_branches * 250, 1500) - 1000) \div 5
      child_factor == 1000 + ((Min2(num_children * 100, 1300) - 1000) * 15) \div 100
  IN (base * branch_factor * child_factor) \div 1000000

\* int(base_radius * branch_factor), in pixels
calculate_adaptive_branch_radius(num_children_total, num_branches) ==
  LET base_radius == IF num_children_total <= 3 THEN 180
                     ELSE IF num_children_total <= 8 THEN 220
                     ELSE IF num_children_total <= 15 THEN 260
                     ELSE IF num_children_total <= 25 THEN 300
                     ELSE 350
      branch_factor == IF num_branches <= 3 THEN 9
                       ELSE IF num_branches <= 6 THEN 10
                       ELSE 12
  IN (base_radius * branch_factor) \div 10

\* the angles with the odd branch given to the left side (right_count and
\* left_count of lines 208-209 exchanged)
BranchAnglesLeftHeavy(num_branches) ==
  CASE num_branches = 1 -> <<45>>
    [] num_branches = 2 -> <<45, 225>>
    [] num_branches = 3 -> <<45, 315, 225>>
    [] num_branches = 4 -> <<45, 315, 225, 135>>
    [] num_branches = 5 -> <<45, 0, 315, 135, 225>>
    [] OTHER ->
       LET min_angle_separation == Max2(30, 360 \div (num_branches + 2))
           right == [i \in 1..(num_branches \div 2) |->
                       IF 45 - (i - 1) * min_angle_separation < -45
                       THEN 315 + (i - 3) * min_angle_separation
                       ELSE 45 - (i - 1) * min_angle_separation]
           left == [i \in 1..((num_branches + 1) \div 2) |->
                      IF 135 + (i - 1) * min_angle_separation > 315
                      THEN 225 - (i - 3) * min_angle_separation
                      ELSE 135 + (i - 1) * min_angle_separation]
       IN SortBy(right \o left, LAMBDA a, b : (a + 45) % 360 < (b + 45) % 360)

\* lines 190-226: the angle, in degrees, of every branch
BranchAngles(num_branches) ==
  CASE num_branches = 1 -> <<45>>
    [] num_branches = 2 -> <<45, 225>>
    [] num_branches = 3 -> <<45, 315, 225>>
    [] num_branches = 4 -> <<45, 315, 225, 135>>
    [] num_branches = 5 -> <<45, 0, 315, 135, 225>>
    [] OTHER ->
       LET min_angle_separation == Max2(30, 360 \div (num_branches + 2))
           right == [i \in 1..((num_branches + 1) \div 2) |->
                       IF 45 - (i - 1) * min_angle_separation < -45
                       THEN 315 + (i - 3) * min_angle_separation
                       ELSE 45 - (i - 1) * min_angle_separation]
           left == [i \in 1..(num_branches \div 2) |->
                      IF 135 + (i - 1) * min_angle_separation > 315
                      THEN 225 - (i - 3) * min_angle_separation
                      ELSE 135 + (i - 1) * min_angle_separation]
       IN SortBy(right \o left, LAMBDA a, b : (a + 45) % 360 < (b + 45) % 360)

\* math.radians
Radians(deg) == DivT(deg * PI, 180)

\* lines 253-282: the node of the branch at index i (from 0)
BranchNode(child, i, angle_deg, base_branch_radius, num_branches) ==
  LET branch_radius == IF num_branches = 5 /\ i \in {1, 4}
                       THEN base_branch_radius * 130
                       ELSE base_branch_radius * CENT
  IN [key |-> <<"branch", i>>,
      x |-> MulS(branch_radius, Cos(Radians(angle_deg))),
      y |-> MulS(branch_radius, Sin(Radians(angle_deg))),
      width |-> calculate_text_width(child.label,
                                     get_adaptive_font_size(child.label, "branch"))
                  + get_adaptive_padding(child.label) * CENT,
      height |-> get_adaptive_node_height(child.label, "branch") * CENT,
      node_type |-> "branch", angle |-> angle_deg, text |-> child.label]

\* lines 352-375: how far the children stand from their branch, in pixels;
\* total_branches is 6, the module having no global called positions
ChildRadius(children) ==
  LET num_children == Len(children)
      max_text_width ==
        SetMax({calculate_text_width(children[j].label, 14) : j \in DOMAIN children})
      base_radius == 180
      by_count == base_radius + (IF num_children <= 2 THEN 30
                                 ELSE IF num_children <= 5 THEN 50 ELSE 70)
      by_text == (by_count * (100000 + (Min2(max_text_width, 18000) - 10000) * 3))
                   \div 100000
  IN IF max_text_width > 200 * CENT
     THEN Max2(by_text, (max_text_width * 8) \div 1000)
     ELSE by_text

\* _position_children_around_branch: the nodes of the children of branch i
position_children_around_branch(branch, children, i) ==
  LET num_children == Len(children)
      child_heights == [j \in DOMAIN children |->
                          get_adaptive_node_height(children[j].label, "child") * CENT]
      child_spacing == (get_adaptive_spacing(num_children)
                          + Max2(15, num_children * 8)) * CENT
      block_height == SumSeq(child_heights) + (num_children - 1) * child_spacing
      is_right_side == \/ (-45 <= branch.angle /\ branch.angle <= 45)
                       \/ (315 <= branch.angle /\ branch.angle <= 405)
      child_radius == ChildRadius(children) * CENT
  IN [j \in DOMAIN children |->
        [key |-> <<"child", i, j - 1>>,
         x |-> IF is_right_side THEN branch.x + child_radius ELSE branch.x - child_radius,
         y |-> branch.y - block_height \div 2
                 + SumSeq(SubSeq(child_heights, 1, j - 1)) + (j - 1) * child_spacing
                 + child_heights[j] \div 2,
         width |-> calculate_text_width(children[j].label,
                                        get_adaptive_font_size(children[j].label, "child"))
                     + get_adaptive_padding(children[j].label) * CENT,
         height |-> child_heights[j],
         node_type |-> "child", angle |-> branch.angle, text |-> children[j].label]]

\* positions[key]
PositionOf(positions, key) ==
  positions[CHOOSE k \in DOMAIN positions : positions[k].key = key]

\* _generate_connections without the lines from a branch to its children
ConnectionsToBranches(children, positions) ==
  [i \in DOMAIN children |->
     [type |-> "topic_to_branch",
      from |-> [x |-> PositionOf(positions, <<"topic">>).x,
                y |-> PositionOf(positions, <<"topic">>).y, type |-> "topic"],
      to |-> [x |-> PositionOf(positions, <<"branch", i - 1>>).x,
              y |-> PositionOf(positions, <<"branch", i - 1>>).y, type |-> "branch"],
      branch_index |-> i - 1, child_index |-> -1]]

\* _generate_connections: for every branch the line from the topic, then the
\* lines to its children (child_index is -1 where the dict has no such key)
generate_connections(children, positions) ==
  With(PositionOf(positions, <<"topic">>), LAMBDA topic_pos :
    Flatten([i \in DOMAIN children |->
      With(PositionOf(positions, <<"branch", i - 1>>), LAMBDA branch_pos :
        <<[type |-> "topic_to_branch",
           from |-> [x |-> topic_pos.x, y |-> topic_pos.y, type |-> "topic"],
           to |-> [x |-> branch_pos.x, y |-> branch_pos.y, type |-> "branch"],
           branch_index |-> i - 1, child_index |-> -1]>>
        \o [j \in DOMAIN children[i].children |->
              With(PositionOf(positions, <<"child", i - 1, j - 1>>), LAMBDA child_pos :
                [type |-> "branch_to_child",
                 from |-> [x |-> branch_pos.x, y |-> branch_pos.y, type |-> "branch"],
                 to |-> [x |-> child_pos.x, y |-> child_pos.y, type |-> "child"],
                 branch_index |-> i - 1, child_index |-> j - 1])])]))

\* lines 164-300: positions in the order they are written
MindPositions(topic, children) ==
  LET num_branches == Len(children)
      angles == BranchAngles(num_branches)
      num_children_total == SumSeq([i \in DOMAIN children |-> Len(children[i].children)])
      base_branch_radius == calculate_adaptive_branch_radius(num_children_total,
                                                             num_branches)
      topic_node == [key |-> <<"topic">>, x |-> 0, y |-> 0,
                     width |-> calculate_text_width(
                                 topic, get_adaptive_font_size(topic, "topic")),
                     height |-> get_adaptive_node_height(topic, "topic") * CENT,
                     node_type |-> "topic", angle |-> 0, text |-> topic]
  IN <<topic_node>> \o
   Flatten([i \in DOMAIN children |->
     With(BranchNode(children[i], i - 1, angles[i], base_branch_radius,
                     num_branches), LAMBDA branch :
       <<branch>> \o
       (IF children[i].children = <<>> THEN <<>>
        ELSE position_children_around_branch(branch, children[i].children,
                                             i - 1)))])

\* _generate_mind_map_layout
generate_mind_map_layout(topic, children) ==
  With(MindPositions(topic, children), LAMBDA positions :
    [algorithm |-> "clockwise_radial",
     positions |-> positions,
     connections |-> generate_connections(children, positions)])

\* math.ceil(v / 50) * 50, in pixels
RoundUp50(v) == CeilDiv(v, 50 * CENT) * 50

\* _compute_recommended_dimensions; no position carries a "children" entry, so
\* num_children is 0
compute_recommended_dimensions(lay) ==
  LET positions == lay.positions
      min_x == -SetMax({positions[k].width \div 2 - positions[k].x : k \in DOMAIN positions})
      max_x == SetMax({positions[k].x + positions[k].width \div 2 : k \in DOMAIN positions})
      min_y == -SetMax({positions[k].height \div 2 - positions[k].y : k \in DOMAIN positions})
      max_y == SetMax({positions[k].y + positions[k].height \div 2 : k \in DOMAIN positions})
      required_width == max_x - min_x
      required_height == max_y - min_y
      content_size == Max2(required_width, required_height)
      num_branches == Cardinality({k \in DOMAIN positions :
                                     positions[k].node_type = "branch"})
      base_padding == calculate_adaptive_base_padding(content_size, num_branches, 0)
      min_padding_percentage == Min2(1000, Max2(600, DivT(content_size, 15)))
      percentage_padding == MulS(content_size, min_padding_percentage)
      padding == Min2(base_padding * CENT, percentage_padding)
      lone_padding == calculate_adaptive_base_padding(content_size, 1, 1)
      min_width == Max2(800 * CENT, required_width + lone_padding * CENT)
      min_height == Max2(500 * CENT,
                         required_height + ((lone_padding * 7) \div 10) * CENT)
      width == RoundUp50(Max2(required_width + 2 * padding, min_width))
      height == RoundUp50(Max2(required_height + 2 * padding, min_height))
  IN IF positions = <<>>
     THEN [baseWidth |-> 800, baseHeight |-> 600, width |-> 800, height |-> 600,
           padding |-> 80 * CENT]
     ELSE [baseWidth |-> width, baseHeight |-> height, width |-> width,
           height |-> height, padding |-> padding]

\* ----- MindMapAgent.enhance_spec, step by step
graph_call == <<normalized_concepts, seen, canon_to_display, sanitized_relationships,
                missing_concepts, rng, pass, first_result, drawn>>

\* lines 67-81
MindValidate ==
  /\ pc = "call"
  /\ IF ~spec.is_dict
     THEN /\ result' = Failure("Spec must be a dictionary")
          /\ pc' = "done"
          /\ UNCHANGED normalized_topic
     ELSE IF spec.topic.tag # "str" \/ spec.children.tag # "list"
     THEN /\ result' = Failure("Invalid field types in spec")
          /\ pc' = "done"
          /\ UNCHANGED normalized_topic
     ELSE IF strip_text(spec.topic) = <<>>
     THEN /\ result' = Failure("Missing or empty topic")
          /\ pc' = "done"
          /\ UNCHANGED normalized_topic
     ELSE /\ normalized_topic' = strip_text(spec.topic)
          /\ pc' = "children"
          /\ UNCHANGED result
  /\ UNCHANGED <<spec, layout, normalized_children, seen_ids>>
  /\ UNCHANGED graph_call

\* lines 83-135
MindNormalize ==
  /\ pc = "children"
  /\ \E st \in {NormalizeChildren(spec.children.items)} :
       /\ normalized_children' = st.kept
       /\ seen_ids' = st.seen
       /\ IF st.raised
          THEN /\ result' = Failure("MindMapAgent failed")
               /\ pc' = "done"
          ELSE IF st.kept = <<>>
          THEN /\ result' = Failure("At least one child branch is required")
               /\ pc' = "done"
          ELSE /\ pc' = "layout"
               /\ UNCHANGED result
  /\ UNCHANGED <<spec, normalized_topic, layout>>
  /\ UNCHANGED graph_call

\* line 138
MindLayout ==
  /\ pc = "layout"
  /\ layout' = generate_mind_map_layout(normalized_topic, normalized_children)
  /\ pc' = "dimensions"
  /\ UNCHANGED <<spec, normalized_topic, normalized_children, seen_ids, result>>
  /\ UNCHANGED graph_call

\* lines 141-156
MindReturn ==
  /\ pc = "dimensions"
  /\ result' =
       [success |-> TRUE,
        spec |-> [topic |-> normalized_topic,
                  children |-> normalized_children,
                  layout |-> layout,
                  recommended_dimensions |-> compute_recommended_dimensions(layout),
                  agent |-> [type |-> "mind_map",
                             branchCount |-> Len(normalized_children),
                             maxChildrenPerBranch |->
                               SetMax({Len(normalized_children[i].children) :
                                         i \in DOMAIN normalized_children}),
                             positioning |-> "clockwise_radial"]]]
  /\ pc' = "done"
  /\ UNCHANGED <<spec, normalized_topic, normalized_children, seen_ids, layout>>
  /\ UNCHANGED graph_call

\* ------------------------------------------------------------------ inputs
sA == <<"A">>
sa_ == <<"a", " ">>
sB == <<"B">>
sb == <<"b">>
sC == <<"C">>
sc_ == <<" ", "c">>
sD == <<"D">>
sK == <<"K">>
sT == <<"T">>
st == <<"t">>
sx == <<"x">>
sy == <<"\t", "y", " ", " ", "y">>
sBlank == <<" ">>
\* 61 characters: 58 times c, a blank, dd
sLong == [i \in 1..58 |-> "c"] \o <<" ", "d", "d">>

Digit(d) == <<"0", "1", "2", "3", "4", "5", "6", "7", "8", "9">>[d + 1]
\* the k-th generated concept, "n01", "n02", ...
Fill(k) == <<"n", Digit(k \div 10), Digit(k % 10)>>
Fills(n) == [k \in 1..n |-> PyStr(Fill(k))]

SeqsUpTo(S, n) == UNION {[1..k -> S] : k \in 0..n}

Rel(f, t, l) == [tag |-> "dict", from |-> f, to |-> t, label |-> l]
NotADict == [tag |-> "other", from |-> PyOther, to |-> PyOther, label |-> PyOther]

rAB == Rel(PyStr(sA), PyStr(sB), PyStr(sx))
rba == Rel(PyStr(sb), PyStr(sa_), PyStr(sy))
rAa == Rel(PyStr(sA), PyStr(sa_), PyStr(sx))
rCA == Rel(PyStr(sC), PyStr(sA), PyStr(sx))
rcB == Rel(PyStr(sc_), PyStr(sB), PyStr(sy))
rTA == Rel(PyStr(sT), PyStr(sA), PyStr(sx))
rtB == Rel(PyStr(st), PyStr(sB), PyStr(sx))
rABnolabel == Rel(PyStr(sA), PyStr(sB), PyStr(sBlank))
\* from is a list
rBadFrom == Rel(PyOther, PyStr(sA), PyStr(sx))
rCD == Rel(PyStr(sC), PyStr(sD), PyStr(sx))
rDT == Rel(PyStr(sD), PyStr(sT), PyStr(sy))

ConceptItems ==
  {PyStr(sA), PyStr(sa_), PyStr(sT), PyStr(st), PyStr(sBlank), PyStr(sLong), PyOther}

RelItems ==
  {rAB, rba, rAa, rCA, rcB, rTA, rtB, rABnolabel, rCD, NotADict}

CapRelItems == {rTA, rCD}

List(items) == [tag |-> "list", items |-> items]
NoValue == [tag |-> "none", items |-> <<>>]

\* what selects the strategy: _method, keys and key_parts
Hint(method, keys, key_parts) == [method |-> method, keys |-> keys, key_parts |-> key_parts]
NoParts == [tag |-> "none", map |-> EmptyMap]

Layered == Hint("none", NoValue, NoParts)
NetworkFirst == Hint("network_first", NoValue, NoParts)
Radial == Hint("enhanced_30", NoValue, NoParts)
\* keys K, {name: A} and a value that is no str; parts for K and A
KeysAndParts ==
  Hint("none", List(<<PyStr(sK), [tag |-> "dict", s |-> sA], PyOther>>),
       [tag |-> "dict",
        map |-> (sK :> <<PyStr(sB), PyStr(sBlank), PyStr(sC)>>) @@ (sA :> <<PyStr(sD)>>)])
KeysOnly == Hint("enhanced_30", List(<<PyStr(sK)>>), NoParts)
\* key_parts is a list
KeysBadParts == Hint("none", List(<<PyStr(sK)>>), [tag |-> "other", map |-> EmptyMap])
\* no key has a name: the sectors are computed from the concepts
KeysBlank == Hint("none", List(<<PyStr(sBlank)>>), NoParts)

Hints == {Layered, NetworkFirst, Radial, KeysAndParts, KeysOnly, KeysBadParts, KeysBlank}

MakeSpec(topic, concepts, relationships, hint) ==
  [is_dict |-> TRUE, topic |-> topic, concepts |-> concepts,
   relationships |-> relationships, keys |-> hint.keys,
   key_parts |-> hint.key_parts, method |-> hint.method]

TopicT == PyStr(<<" ", "T">>)

\* concept lists that exercise the de-duplication
DedupInputs ==
  {MakeSpec(TopicT, List(cs), List(<<>>), h) :
     cs \in SeqsUpTo(ConceptItems, MaxTail), h \in {Layered, Radial, KeysAndParts}}

\* relationship lists that exercise the sanitisation
RelInputs ==
  {MakeSpec(TopicT, List(cs), List(rs), h) :
     cs \in {<<PyStr(sA), PyStr(sB)>>, <<PyStr(sa_), PyStr(st)>>},
     rs \in SeqsUpTo(RelItems, MaxRels), h \in {NetworkFirst, Radial, KeysBlank}}

\* concept lists around the cap of MAX_CONCEPTS
CapInputs ==
  {MakeSpec(TopicT, List(Fills(n)), List(rs), Layered) :
     n \in (MAX_CONCEPTS - 1)..(MAX_CONCEPTS + 1), rs \in SeqsUpTo(CapRelItems, MaxRels)}
  \cup {MakeSpec(TopicT, List(Fills(MAX_CONCEPTS - 1)), List(<<rCD>>), h) :
          h \in {Radial, KeysBlank}}

\* every strategy on small specs, well-formed or not
StrategyInputs ==
  {MakeSpec(TopicT, List(cs), List(rs), h) :
     cs \in {<<>>, <<PyStr(sA)>>, <<PyStr(sA), PyOther>>},
     rs \in {<<>>, <<rAB>>, <<NotADict>>, <<rBadFrom>>, <<rDT>>}, h \in Hints}

ValueKinds ==
  {List(<<PyStr(sA)>>), NoValue, [tag |-> "falsy", items |-> <<>>],
   [tag |-> "truthy", items |-> <<>>]}

\* specs that the checks of lines 42-52 accept or refuse
ShapeInputs ==
  {[MakeSpec(t, cs, rs, Layered) EXCEPT !.is_dict = d] :
     t \in {TopicT, PyStr(sBlank), PyOther}, cs \in ValueKinds, rs \in ValueKinds,
     d \in BOOLEAN}

\* concepts that differ in case and whitespace only, a self-loop, and a
\* graph whose concepts are not linked to the topic
ScenarioInputs ==
  {MakeSpec(TopicT, List(<<PyStr(<<"A", "b">>), PyStr(<<"a", "b", " ">>),
                           PyStr(<<"A", "B">>)>>), List(<<>>), Layered),
   MakeSpec(TopicT, List(<<PyStr(sA)>>), List(<<Rel(PyStr(sA), PyStr(sA), PyStr(sx))>>),
            Layered),
   MakeSpec(TopicT, List(<<PyStr(sA), PyStr(sB)>>), List(<<>>), Layered)}

\* the links a graph over the topic and four concepts is drawn from: some
\* start at the topic, some end at it, some join two concepts
GraphEdges ==
  <<rTA, Rel(PyStr(sB), PyStr(sT), PyStr(sx)), Rel(PyStr(sB), PyStr(sC), PyStr(sx)),
    Rel(PyStr(sD), PyStr(sA), PyStr(sx)), rAB, rCD>>

\* the items of s at the indices of chosen, in the order of s
Pick(s, chosen) ==
  LET idx == SelectSeq([i \in DOMAIN s |-> i], LAMBDA i : i \in chosen)
  IN [k \in DOMAIN idx |-> s[idx[k]]]

\* every graph of those links, laid out in layers: chains, cycles, islands
GraphInputs ==
  {MakeSpec(TopicT, List(<<PyStr(sA), PyStr(sB), PyStr(sC), PyStr(sD)>>),
            List(Pick(GraphEdges, chosen)), Layered) :
     chosen \in SUBSET DOMAIN GraphEdges}

\* concept counts on both sides of the steps of the ring count
RingSizes == {3, 7, 10, 11, 20, 21}

\* concept lists of those sizes for the radial strategy, with and without a
\* link between the topic and the last concept given
RingInputs ==
  UNION {{MakeSpec(TopicT, List(Fills(n)), List(rs), Radial) :
            rs \in {<<>>, <<Rel(PyStr(sT), PyStr(Fill(n)), PyStr(sx))>>}} :
         n \in RingSizes}

Inputs ==
  DedupInputs \cup RelInputs \cup CapInputs \cup StrategyInputs \cup ShapeInputs
    \cup ScenarioInputs \cup GraphInputs \cup RingInputs

Init ==
  /\ spec \in Inputs
  /\ pc = "call"
  /\ normalized_topic = <<>>
  /\ normalized_concepts = <<>>
  /\ seen = {}
  /\ canon_to_display = EmptyMap
  /\ sanitized_relationships = <<>>
  /\ missing_concepts = {}
  /\ layout = Pending
  /\ result = Pending
  /\ rng = [stream |-> "os", pos |-> 0]
  /\ pass = 1
  /\ first_result = Pending
  /\ drawn = <<>>
  /\ normalized_children = <<>>
  /\ seen_ids = {}

Next ==
  \/ Validate
  \/ DedupeConcepts
  \/ SanitizeRels
  \/ PromoteMissing
  \/ FinalFilter
  \/ LayoutSectors
  \/ LayoutRadial
  \/ LayoutSugiyama
  \/ Return
  \/ Resubmit

Spec == Init /\ [][Next]_vars

\* two runs of enhance_spec on one spec
NextRerun ==
  \/ Validate
  \/ DedupeConcepts
  \/ SanitizeRels
  \/ PromoteMissing
  \/ FinalFilter
  \/ LayoutSectors
  \/ LayoutRadial
  \/ LayoutSugiyama
  \/ Return
  \/ Rerun

SpecRerun == Init /\ [][NextRerun]_vars

\* specs whose keys name no key: the sectors are computed from the concepts
SideBySideInputs ==
  {MakeSpec(TopicT, List(cs), List(rs), KeysBlank) :
     cs \in {<<PyStr(sA)>>, <<PyStr(sA), PyStr(sB)>>},
     rs \in SeqsUpTo({rTA, rAB, rtB}, MaxRels)}

InitSideBySide ==
  /\ spec \in SideBySideInputs
  /\ pc = "call"
  /\ normalized_topic = <<>>
  /\ normalized_concepts = <<>>
  /\ seen = {}
  /\ canon_to_display = EmptyMap
  /\ sanitized_relationships = <<>>
  /\ missing_concepts = {}
  /\ layout = Pending
  /\ result = Pending
  /\ rng = [stream |-> "os", pos |-> 0]
  /\ pass = 1
  /\ first_result = Pending
  /\ drawn = <<>>
  /\ normalized_children = <<>>
  /\ seen_ids = {}

\* one call under the sector strategy while other calls run
NextSideBySide ==
  \/ Validate
  \/ DedupeConcepts
  \/ SanitizeRels
  \/ PromoteMissing
  \/ FinalFilter
  \/ SeedSectors
  \/ DrawSectors
  \/ FinishSectors
  \/ OtherSeed
  \/ OtherDraw
  \/ Return

SpecSideBySide == InitSideBySide /\ [][NextSideBySide]_vars

\* ----- the mind maps given to MindMapAgent.enhance_spec
MaxBranchesGiven == 10
MaxChildrenGiven == 7
MaxLabel == 100

NoText == [tag |-> "none", s |-> <<>>]
Branch(id, label, children) ==
  [tag |-> "dict", id |-> id, label |-> label, children |-> children]
Leaf(id, label) == Branch(id, label, NoValue)
NotABranch == [tag |-> "other", id |-> PyOther, label |-> PyOther, children |-> NoValue]
MindMap(topic, children) == [is_dict |-> TRUE, topic |-> topic, children |-> children]

\* a label of n letters
LongLabel(n) == [i \in 1..n |-> "M"]

\* branch k of a generated mind map, with m children of its own
GivenBranch(k, m) ==
  Branch(PyStr(Fill(k)), PyStr(<<"B">> \o Fill(k)),
         List([j \in 1..m |->
                 Leaf(PyStr(Fill(MaxBranchesGiven + (k - 1) * MaxChildrenGiven + j)),
                      PyStr(<<"c">> \o Fill(j)))]))
GivenBranches(n, m) == [k \in 1..n |-> GivenBranch(k, m)]

\* the same branches behind an entry that is no dict, with the first one again
\* after the second
Interleaved(n, m) ==
  <<NotABranch>> \o SubSeq(GivenBranches(n, m), 1, 2) \o <<GivenBranch(1, m)>>
    \o SubSeq(GivenBranches(n, m), 3, n)

BranchA == Branch(PyStr(sA), PyStr(sA),
                  List(<<Leaf(PyStr(sB), PyStr(sB)), Leaf(PyStr(sA), PyStr(sa_)),
                         NotABranch, Leaf(PyStr(<<"B", " ">>), PyStr(sb))>>))
BranchB == Branch(PyStr(<<" ", "B">>), PyStr(sB), List(<<Leaf(PyStr(sC), PyStr(sC))>>))
BranchC == Leaf(PyStr(sC), PyStr(sc_))
BranchBlank == Branch(PyStr(<<" ">>), PyStr(sD), List(<<Leaf(PyStr(sD), PyStr(sD))>>))
BranchUnlabelled == Leaf(PyStr(sD), NoText)
BranchBadId == Leaf(PyOther, PyStr(sD))
BranchBadChild == Branch(PyStr(sD), PyStr(sD), List(<<Leaf(PyStr(sK), PyOther)>>))
BranchOddChildren == Branch(PyStr(sK), PyStr(sK), [tag |-> "truthy", items |-> <<>>])

BranchKinds == {BranchA, BranchB, BranchC, NotABranch, BranchBlank, BranchUnlabelled,
                BranchBadId, BranchBadChild, BranchOddChildren}

LabelLengths == {5, 9, 16, 20, MaxLabel}

MindInputs ==
  {MindMap(TopicT, List(GivenBranches(n, m))) :
     n \in 0..MaxBranchesGiven, m \in 0..MaxChildrenGiven}
  \cup {MindMap(TopicT, List(Interleaved(n, m))) :
          n \in 3..MaxBranchesGiven, m \in {0, 1, MaxChildrenGiven}}
  \cup {MindMap(TopicT, List(bs)) : bs \in SeqsUpTo(BranchKinds, 3)}
  \cup {MindMap(PyStr(LongLabel(n)), List(<<BranchA>>)) : n \in LabelLengths \cup {11, 21}}
  \cup {MindMap(TopicT, List(<<Leaf(PyStr(sA), PyStr(LongLabel(n)))>>)) :
          n \in LabelLengths}
  \cup {MindMap(TopicT, List(<<Branch(PyStr(sA), PyStr(sA),
                                      List(<<Leaf(PyStr(sB), PyStr(LongLabel(n)))>>))>>)) :
          n \in LabelLengths}
  \cup {MindMap(PyStr(<<" ", "T", " ">>), List(<<BranchA>>)),
        MindMap(PyStr(<<" ">>), List(<<BranchA>>)),
        MindMap(PyStr(<<>>), List(<<BranchA>>)),
        MindMap(PyStr(<<"\t", " ">>), List(GivenBranches(MaxBranchesGiven, 0))),
        MindMap(PyOther, List(<<BranchA>>)),
        MindMap(TopicT, NoValue),
        [is_dict |-> FALSE, topic |-> PyOther, children |-> NoValue]}

InitMind ==
  /\ spec \in MindInputs
  /\ pc = "call"
  /\ normalized_topic = <<>>
  /\ normalized_concepts = <<>>
  /\ seen = {}
  /\ canon_to_display = EmptyMap
  /\ sanitized_relationships = <<>>
  /\ missing_concepts = {}
  /\ layout = Pending
  /\ result = Pending
  /\ rng = [stream |-> "os", pos |-> 0]
  /\ pass = 1
  /\ first_result = Pending
  /\ drawn = <<>>
  /\ normalized_children = <<>>
  /\ seen_ids = {}

NextMind ==
  \/ MindValidate
  \/ MindNormalize
  \/ MindLayout
  \/ MindReturn

MindSpec == InitMind /\ [][NextMind]_vars

\* ------------------------------------------------------------------ properties
\* enhance_spec has returned a success
Succeeded == pc = "done" /\ result.success

\* the lists the call works on
InputConcepts == ListOrEmpty(spec.concepts).items
InputRelationships == ListOrEmpty(spec.relationships).items

\* the nodes of the result
Nodes == SeqToSet(result.spec.concepts) \cup {result.spec.topic}

\* every relationship of the result joins two of the given nodes
EndpointsWithin(nodes) ==
  \A i \in DOMAIN result.spec.relationships :
    /\ result.spec.relationships[i].from \in nodes
    /\ result.spec.relationships[i].to \in nodes

\* from, to and label of an input relationship, cleaned
Cleaned(rel) ==
  [from |-> clean_text(rel.from, MAX_LABEL_LEN),
   to |-> clean_text(rel.to, MAX_LABEL_LEN),
   label |-> clean_text(rel.label, MAX_LABEL_LEN)]

\* an input relationship that names two endpoints
HasEndpoints(rel) ==
  rel.tag = "dict" /\ Cleaned(rel).from # <<>> /\ Cleaned(rel).to # <<>>

\* an input relationship with non-empty endpoints and label
Labelled(rel) == HasEndpoints(rel) /\ Cleaned(rel).label # <<>>

\* the unordered pair of endpoints, compared without case and whitespace
CanonPair(from, to) == {canonical(from), canonical(to)}

InputPair(rel) == CanonPair(Cleaned(rel).from, Cleaned(rel).to)

\* the relationship r of the result is the input relationship rel
IsOccurrence(r, rel) ==
  /\ canonical(r.from) = canonical(Cleaned(rel).from)
  /\ canonical(r.to) = canonical(Cleaned(rel).to)
  /\ r.label = Cleaned(rel).label

\* no self-loop, and no two relationships on one unordered pair
SimpleGraph(rels) ==
  /\ \A i \in DOMAIN rels :
       rels[i].from # rels[i].to /\ canonical(rels[i].from) # canonical(rels[i].to)
  /\ \A i, j \in DOMAIN rels :
       i # j => /\ {rels[i].from, rels[i].to} # {rels[j].from, rels[j].to}
                /\ CanonPair(rels[i].from, rels[i].to) # CanonPair(rels[j].from, rels[j].to)

\* every relationship of the result is the first of the input relationships
\* on its pair that Counts
FirstOccurrenceWins(Counts(_)) ==
  \A i \in DOMAIN result.spec.relationships :
    With(result.spec.relationships[i], LAMBDA r :
    With({j \in DOMAIN InputRelationships :
            /\ Counts(InputRelationships[j])
            /\ InputPair(InputRelationships[j]) = CanonPair(r.from, r.to)}, LAMBDA same :
      /\ same # {}
      /\ IsOccurrence(r, InputRelationships[CHOOSE j \in same : \A k \in same : j <= k])))

\* C1: a successful result has at most MAX_CONCEPTS concepts, those kept from
\* the input and those promoted counted together; when the input list alone
\* fills the cap, the concepts are the ones kept from it and no relationship
\* names any other node.
CapInvariant ==
  Succeeded =>
    /\ Len(result.spec.concepts) <= MAX_CONCEPTS
    /\ With(NormalizeConcepts(InputConcepts, result.spec.topic).nc, LAMBDA kept :
         Len(kept) >= MAX_CONCEPTS =>
           /\ result.spec.concepts = kept
           /\ EndpointsWithin(SeqToSet(kept) \cup {result.spec.topic}))

\* MAX_CONCEPTS concepts and a relationship from the topic to one more node:
\* the relationship is dropped and no concept is added
CapReached ==
  /\ Succeeded
  /\ pass = 1
  /\ Len(InputConcepts) = MAX_CONCEPTS
  /\ InputRelationships = <<rTA>>
  /\ Len(result.spec.concepts) = MAX_CONCEPTS
  /\ result.spec.relationships = <<>>

\* C2 as stated: the relationships of a successful result form a simple
\* undirected graph, and each of them is the first of all the input
\* relationships that name its unordered pair of endpoints.
FirstOfAllOccurrences ==
  Succeeded =>
    /\ SimpleGraph(result.spec.relationships)
    /\ FirstOccurrenceWins(HasEndpoints)

\* C2: the relationships of a successful result form a simple undirected
\* graph (no from equal to to, no two on the same unordered pair, whatever
\* the direction), and each of them is the first of the input relationships
\* with non-empty endpoints and label that name its unordered pair.
FirstLabelledOccurrence ==
  Succeeded =>
    /\ SimpleGraph(result.spec.relationships)
    /\ FirstOccurrenceWins(Labelled)

\* A - B and then b - a: the second is dropped
ReversedDuplicateDropped ==
  /\ Succeeded
  /\ InputRelationships = <<rAB, rba>>
  /\ Len(result.spec.relationships) = 1
  /\ result.spec.relationships[1].label = sx

\* C3: in a successful result both endpoints of every relationship are the
\* topic or one of the concepts, whether or not the cap was reached.
EndpointsAreNodes == Succeeded => EndpointsWithin(Nodes)

\* the cap is reached with one endpoint promoted: the relationship of the
\* promoted endpoint stays, the other one goes
DanglingDroppedAtCap ==
  /\ Succeeded
  /\ Len(result.spec.concepts) = MAX_CONCEPTS
  /\ Len(InputConcepts) < MAX_CONCEPTS
  /\ Len(InputRelationships) = 2
  /\ Len(result.spec.relationships) = 1

\* C4: in a successful result, under every strategy and for every input, the
\* topic, every concept and every endpoint of a relationship has an entry in
\* the positions of the layout.
PositionsCoverNodes ==
  Succeeded =>
    /\ Nodes \subseteq DOMAIN result.spec.layout.positions
    /\ EndpointsWithin(DOMAIN result.spec.layout.positions)

Abs(v) == IF v < 0 THEN -v ELSE v

\* every coordinate of the layout is at most limit in absolute value
CoordinatesWithin(limit) ==
  \A n \in DOMAIN result.spec.layout.positions :
    /\ Abs(result.spec.layout.positions[n].x) <= limit
    /\ Abs(result.spec.layout.positions[n].y) <= limit

\* C5: every coordinate lies in [-1, 1] under every strategy, and in
\* [-0.95, 0.95] under the layered strategy.
BoundingInvariant ==
  Succeeded =>
    /\ CoordinatesWithin(SCALE)
    /\ result.spec.layout.algorithm = "sugiyama" => CoordinatesWithin(9500)

\* the topic is missing, not a str, or empty after trimming
BadTopic == spec.topic.tag # "str" \/ ~NonBlank(spec.topic.s)

\* a value is supplied and it is not a list
NotAList(v) == v.tag \in {"falsy", "truthy"}

\* C6: the call fails at once, with no spec, layout or dimensions, whenever
\* the topic is missing, not a str or empty after trimming, or the concepts
\* or the relationships supplied are not a list, falsy values included.
InvalidShapeFails ==
  (pc = "done" /\ (BadTopic \/ NotAList(spec.concepts) \/ NotAList(spec.relationships)))
    => (~result.success /\ DOMAIN result = {"success", "error"})

\* C7: a dict with a non-empty str topic and lists of concepts and
\* relationships gets a success under every strategy, whatever the lists hold.
WellShapedSucceeds ==
  (/\ pc = "done"
   /\ spec.is_dict
   /\ ~BadTopic
   /\ spec.concepts.tag = "list"
   /\ spec.relationships.tag = "list")
    => result.success

\* C8: the topic, concepts and relationships of a successful result, given to
\* enhance_spec again, come back as they are.
Idempotent ==
  (pc = "done" /\ pass = 2) =>
    /\ result.success
    /\ result.spec.topic = first_result.spec.topic
    /\ result.spec.concepts = first_result.spec.concepts
    /\ result.spec.relationships = first_result.spec.relationships

\* the second call has returned on a first result of MAX_CONCEPTS concepts,
\* one of them promoted, with a relationship
SecondCallAtCap ==
  /\ pc = "done"
  /\ pass = 2
  /\ Len(first_result.spec.concepts) = MAX_CONCEPTS
  /\ first_result.spec.concepts[MAX_CONCEPTS] = sA
  /\ Len(first_result.spec.relationships) = 1

\* the input relationship at index j is the first to name its pair
FirstOfItsPair(j) ==
  \A k \in 1..(j - 1) :
    HasEndpoints(InputRelationships[k]) =>
      InputPair(InputRelationships[k]) # InputPair(InputRelationships[j])

\* C9: endpoints resolve, without case and whitespace, to the display text of
\* the topic or of a concept, and an unknown endpoint becomes a concept while
\* fewer than MAX_CONCEPTS are retained: a relationship with non-empty
\* endpoints and label, no self-loop and the first of its pair, is dropped
\* only when the cap is reached.
DroppedOnlyAtCap ==
  (Succeeded /\ Len(result.spec.concepts) < MAX_CONCEPTS) =>
    \A j \in DOMAIN InputRelationships :
      (/\ Labelled(InputRelationships[j])
       /\ Cardinality(InputPair(InputRelationships[j])) = 2
       /\ FirstOfItsPair(j))
        => \E i \in DOMAIN result.spec.relationships :
             /\ IsOccurrence(result.spec.relationships[i], InputRelationships[j])
             /\ result.spec.relationships[i].from \in Nodes
             /\ result.spec.relationships[i].to \in Nodes

\* the cleaned text of the input concept at index i, "" for a non-str
CleanedConcept(i) == clean_text(InputConcepts[i], MAX_LABEL_LEN)

\* the input concepts to retain: those with a text, the first of their
\* lower-cased, whitespace-stripped form, and not the topic; at most MAX_CONCEPTS
FirstComeFirstKept ==
  With(SelectSeq([i \in DOMAIN InputConcepts |-> i], LAMBDA i :
         /\ CleanedConcept(i) # <<>>
         /\ CleanedConcept(i) # result.spec.topic
         /\ \A k \in 1..(i - 1) :
              canonical(CleanedConcept(k)) # canonical(CleanedConcept(i))), LAMBDA firsts :
    Take([j \in DOMAIN firsts |-> CleanedConcept(firsts[j])], MAX_CONCEPTS))

\* C10: of the input concepts with the same lower-cased, whitespace-stripped
\* form only the first is retained, with its whitespace-collapsed text; the
\* retained concepts come in input order; a concept whose cleaned text is the
\* topic is dropped.  Any further concept of the result is a promoted endpoint.
DedupKeepsFirst ==
  Succeeded =>
    /\ Take(result.spec.concepts, Len(FirstComeFirstKept)) = FirstComeFirstKept
    /\ \A j \in (Len(FirstComeFirstKept) + 1)..Len(result.spec.concepts) :
         \A i \in DOMAIN InputConcepts :
           canonical(CleanedConcept(i)) # canonical(result.spec.concepts[j])

\* both runs on one spec have returned a success
BothSucceeded ==
  pc = "done" /\ pass = 2 /\ result.success /\ first_result.success

\* C11: two runs of enhance_spec on the same input return the same concepts
\* list, members and order, and the same relationships list, also when
\* several unknown endpoints compete for the slots left under the cap.
SameNormalization ==
  BothSucceeded =>
    /\ result.spec.concepts = first_result.spec.concepts
    /\ result.spec.relationships = first_result.spec.relationships

\* C12: under the radial strategy two runs of enhance_spec on the same input,
\* normalised to the same concepts, return identical positions.
SameRadialPositions ==
  (/\ BothSucceeded
   /\ result.spec.layout.algorithm = "radial"
   /\ result.spec.concepts = first_result.spec.concepts)
    => result.spec.layout.positions = first_result.spec.layout.positions

\* C13: the layout engines share no mutable state: whatever other calls do
\* meanwhile, a call returns the positions it returns when it runs alone.
ReturnsAsAlone ==
  Succeeded =>
    result.spec.layout.positions =
      generate_layout_sectors_from_keys_parts(result.spec.topic, spec,
                                              Seed42Stream).positions

\* C14: the returned spec holds every field the caller supplied, with its
\* value unchanged: topic, concepts, relationships, keys, key_parts, _method.
SuppliedFieldsKept ==
  Succeeded =>
    /\ result.spec.topic = spec.topic.s
    /\ spec.concepts.tag = "list" =>
         [i \in DOMAIN result.spec.concepts |-> PyStr(result.spec.concepts[i])]
           = spec.concepts.items
    /\ spec.relationships.tag = "list" =>
         [i \in DOMAIN result.spec.relationships |->
            Rel(PyStr(result.spec.relationships[i].from),
                PyStr(result.spec.relationships[i].to),
                PyStr(result.spec.relationships[i].label))]
           = spec.relationships.items
    /\ spec.keys.tag # "none" => "keys" \in DOMAIN result.spec
    /\ spec.key_parts.tag # "none" => "key_parts" \in DOMAIN result.spec
    /\ result.spec.method = spec.method

\* C15: the hint alone decides the strategy: sectors when the spec has a list
\* under keys, whatever _method says, else radial when _method is enhanced_30,
\* else sugiyama; concepts and relationships have no say.
StrategyByHint ==
  Succeeded =>
    result.spec.layout.algorithm =
      IF spec.keys.tag = "list" THEN "sectors"
      ELSE IF spec.method = "enhanced_30" THEN "radial"
      ELSE "sugiyama"

\* a spec with keys and _method enhanced_30 has been laid out in sectors
KeysBeforeMethod ==
  /\ Succeeded
  /\ spec.keys.tag = "list"
  /\ spec.method = "enhanced_30"
  /\ InputConcepts # <<>>
  /\ result.spec.layout.algorithm = "sectors"

\* C16: in every successful result width = baseWidth and height = baseHeight,
\* with 600 <= width <= 1400 and 500 <= height <= 1200, for every input and
\* strategy, the fallback for an empty layout included.
DimensionsBounded ==
  Succeeded =>
    LET d == result.spec.recommended_dimensions
    IN /\ d.width = d.baseWidth
       /\ d.height = d.baseHeight
       /\ 600 <= d.width /\ d.width <= 1400
       /\ 500 <= d.height /\ d.height <= 1200

\* a layout wider than the canvas allows has been cut to 1400 pixels
CanvasAtCap ==
  /\ Succeeded
  /\ DOMAIN result.spec.layout.positions # {}
  /\ result.spec.recommended_dimensions.width = 1400

\* the canvas area of recommended dimensions
Area(d) == d.width * d.height

\* the dimensions enhance_spec recommends, under the layered strategy, for a
\* topic and concepts it keeps as they are, without relationships
LayeredDimensions(topic, concepts) ==
  compute_recommended_dimensions_from_layout(
    generate_layout_sugiyama(topic, concepts, <<>>), topic, concepts)

\* C18: one concept more, the other labels unchanged, never makes the
\* recommended canvas area smaller, also from no concept to one.
CanvasMonotone ==
  (/\ Succeeded
   /\ result.spec.layout.algorithm = "sugiyama"
   /\ result.spec.relationships = <<>>
   /\ result.spec.concepts # <<>>)
    => Area(result.spec.recommended_dimensions)
         >= Area(LayeredDimensions(result.spec.topic,
                                   SubSeq(result.spec.concepts, 1,
                                          Len(result.spec.concepts) - 1)))

\* ----- the tree engine
\* an entry that can become a branch or a child: a dict whose id and label are
\* not blank
Usable(item) ==
  item.tag = "dict" /\ strip_text(item.id) # <<>> /\ strip_text(item.label) # <<>>

\* the stripped ids of a list of entries, in the order given
GivenIds(items) == [k \in DOMAIN items |-> strip_text(items[k].id)]

\* the ids of a tree: every branch followed by its children
TreeIds(children) ==
  Flatten([i \in DOMAIN children |->
             <<children[i].id>> \o [j \in DOMAIN children[i].children |->
                                      children[i].children[j].id]])

RECURSIVE IsSubsequence(_, _)
IsSubsequence(a, b) ==
  IF a = <<>> THEN TRUE
  ELSE IF b = <<>> THEN FALSE
  ELSE IF Head(a) = Head(b) THEN IsSubsequence(Tail(a), Tail(b))
  ELSE IsSubsequence(a, Tail(b))

\* where the entry with this id stands among the entries given
FirstGiven(items, id) ==
  CHOOSE k \in DOMAIN items :
    /\ Usable(items[k]) /\ strip_text(items[k].id) = id
    /\ \A j \in 1..(k - 1) : ~(Usable(items[j]) /\ strip_text(items[j].id) = id)

\* the entries kept are at most cap, stand in the order given, and an entry
\* left out though its id is free stands behind every entry kept
FirstKept(kept, items, cap, used) ==
  /\ Len(kept) <= cap
  /\ IsSubsequence([i \in DOMAIN kept |-> kept[i].id], GivenIds(items))
  /\ \A k \in DOMAIN items :
       Usable(items[k]) /\ strip_text(items[k].id) \notin used
         => /\ Len(kept) = cap
            /\ \A i \in DOMAIN kept : FirstGiven(items, kept[i].id) < k

\* C17: the canvas MindMapAgent recommends stays under a fixed cap, the 1400
\* by 1200 of the graph engine, however long the labels are
TreeCanvasCapped ==
  Succeeded => /\ result.spec.recommended_dimensions.width <= 1400
               /\ result.spec.recommended_dimensions.height <= 1200

\* C19: a successful result has at most 8 branches and at most 6 children in
\* each branch, and what is kept are the first entries given, in their order
BranchCaps ==
  Succeeded =>
    LET kept == result.spec.children
        given == spec.children.items
        used == SeqToSet(TreeIds(kept))
    IN /\ FirstKept(kept, given, 8, used)
       /\ \A i \in DOMAIN kept :
            With(given[FirstGiven(given, kept[i].id)].children, LAMBDA nested :
              IF nested.tag = "list"
              THEN FirstKept(kept[i].children, nested.items, 6, used)
              ELSE kept[i].children = <<>>)

\* more than 8 branches were given and a branch kept was given more than 6
\* children
BranchesTruncated ==
  /\ Succeeded
  /\ Len(result.spec.children) = 8
  /\ Cardinality({k \in DOMAIN spec.children.items :
                    Usable(spec.children.items[k])}) > 8
  /\ \E i \in DOMAIN result.spec.children :
       /\ Len(result.spec.children[i].children) = 6
       /\ Len(spec.children.items[
                FirstGiven(spec.children.items, result.spec.children[i].id)
              ].children.items) > 6

\* C20: in a successful result the ids of all branches and of all children
\* are pairwise distinct
IdsDistinct ==
  Succeeded =>
    LET ids == TreeIds(result.spec.children)
    IN \A i, j \in DOMAIN ids : i # j => ids[i] # ids[j]

\* the ids given, of the usable branches and of their usable children
AllGivenIds ==
  Flatten([k \in DOMAIN spec.children.items |->
    With(spec.children.items[k], LAMBDA b :
      IF ~Usable(b) THEN <<>>
      ELSE <<strip_text(b.id)>> \o
           (IF b.children.tag # "list" THEN <<>>
            ELSE GivenIds(SelectSeq(b.children.items, Usable))))])

\* a result of two branches or more for a tree that was given an id twice
RepeatedIdGiven ==
  /\ Succeeded
  /\ Len(result.spec.children) >= 2
  /\ \E i, j \in DOMAIN AllGivenIds : i < j /\ AllGivenIds[i] = AllGivenIds[j]

\* a str of nothing but whitespace, or no str at all
Blank(value) == value.tag # "str" \/ \A i \in DOMAIN value.s : IsSpace(value.s[i])

\* an entry whose id or label makes .strip() raise
Raising(item) ==
  item.tag = "dict" /\ (item.id.tag = "other" \/ item.label.tag = "other")

\* a branch or a child of a branch given that raises
SomeRaising ==
  \E k \in DOMAIN spec.children.items :
    \/ Raising(spec.children.items[k])
    \/ /\ spec.children.items[k].tag = "dict"
       /\ spec.children.items[k].children.tag = "list"
       /\ \E j \in DOMAIN spec.children.items[k].children.items :
            Raising(spec.children.items[k].children.items[j])

\* an entry with an id and a label that are not blank
Filled(item) == item.tag = "dict" /\ ~Blank(item.id) /\ ~Blank(item.label)

\* C21: the call fails, and returns no layout, when the topic is missing or
\* blank or when no branch is retained; a tree that has a topic and a branch
\* and only exceeds the caps succeeds
FailsOnlyWithoutTopicOrBranch ==
  pc = "done" =>
    /\ spec.is_dict /\ Blank(spec.topic) => ~result.success
    /\ normalized_children = <<>> => ~result.success
    /\ ~result.success => DOMAIN result = {"success", "error"}
    /\ ( /\ spec.is_dict /\ ~Blank(spec.topic) /\ spec.children.tag = "list"
         /\ ~SomeRaising
         /\ \E k \in DOMAIN spec.children.items : Filled(spec.children.items[k]) )
       => result.success

\* a success for more than 8 branches, one of them with more than 6 children
OverCapSucceeded ==
  /\ Succeeded
  /\ Cardinality({k \in DOMAIN spec.children.items :
                    Filled(spec.children.items[k])}) > 8
  /\ \E k \in DOMAIN spec.children.items :
       /\ spec.children.items[k].children.tag = "list"
       /\ Cardinality({j \in DOMAIN spec.children.items[k].children.items :
                         Filled(spec.children.items[k].children.items[j])}) > 6

\* positions[key] of the tree layout
PositionAt(key) ==
  With(result.spec.layout.positions, LAMBDA positions :
    positions[CHOOSE k \in DOMAIN positions : positions[k].key = key])

BranchCount == Len(result.spec.children)

\* C22: branch i stands right of the topic when i < n / 2 and left of it
\* otherwise, n the number of branches, and the children of a branch stand on
\* the side of their branch, further out
BranchSides ==
  Succeeded =>
    \A i \in 0..(BranchCount - 1) :
      /\ IF 2 * i < BranchCount
         THEN PositionAt(<<"branch", i>>).x > PositionAt(<<"topic">>).x
         ELSE PositionAt(<<"branch", i>>).x < PositionAt(<<"topic">>).x
      /\ \A j \in 0..(Len(result.spec.children[i + 1].children) - 1) :
           IF 2 * i < BranchCount
           THEN PositionAt(<<"child", i, j>>).x > PositionAt(<<"branch", i>>).x
           ELSE PositionAt(<<"child", i, j>>).x < PositionAt(<<"branch", i>>).x

\* seven branches, each with children: four on the right, three on the left
SevenBranchesSplit ==
  /\ Succeeded
  /\ BranchCount = 7
  /\ \A i \in 1..7 : result.spec.children[i].children # <<>>
  /\ \A i \in 0..3 : PositionAt(<<"branch", i>>).x > 0
  /\ \A i \in 4..6 : PositionAt(<<"branch", i>>).x < 0

\* C23: with 2 branches or more branch 1 has the y of the topic, and with 5
\* branches or more branch 4 has it too
MiddleBranchesAtTopicY ==
  Succeeded =>
    /\ BranchCount >= 2 => PositionAt(<<"branch", 1>>).y = PositionAt(<<"topic">>).y
    /\ BranchCount >= 5 => PositionAt(<<"branch", 4>>).y = PositionAt(<<"topic">>).y

\* the boxes of two positions have a point in common
BoxesIntersect(p, q) ==
  /\ 2 * Abs(p.x - q.x) < p.width + q.width
  /\ 2 * Abs(p.y - q.y) < p.height + q.height

\* C24: the child boxes of two different branches on the same side of the
\* topic never intersect
ChildBlocksApart ==
  Succeeded =>
    With(result.spec.layout.positions, LAMBDA positions :
      \A k, m \in DOMAIN positions :
        ( /\ positions[k].node_type = "child" /\ positions[m].node_type = "child"
          /\ positions[k].key[2] # positions[m].key[2]
          /\ (positions[k].x > 0) = (positions[m].x > 0) )
        => ~BoxesIntersect(positions[k], positions[m]))

\* the lines a layout must hold: for every retained branch the line from the
\* topic to it, for every retained child the line from its branch to it
ExpectedLines(children) ==
  {<<"topic_to_branch", i - 1, -1>> : i \in DOMAIN children}
  \cup UNION {{<<"branch_to_child", i - 1, j - 1>> : j \in DOMAIN children[i].children} :
               i \in DOMAIN children}

\* the key of the positions entry a line starts from and of the one it ends at
LineFrom(c) ==
  IF c.type = "topic_to_branch" THEN <<"topic">> ELSE <<"branch", c.branch_index>>

LineTo(c) ==
  IF c.type = "topic_to_branch" THEN <<"branch", c.branch_index>>
  ELSE <<"child", c.branch_index, c.child_index>>

\* C25: the connections of a layout are exactly one topic_to_branch line per
\* retained branch and one branch_to_child line per retained child, and the
\* ends of every line are the coordinates of the positions entries it joins
ConnectionsMatchTree ==
  Succeeded =>
    With(result.spec.layout, LAMBDA lay :
      /\ {<<lay.connections[k].type, lay.connections[k].branch_index,
            lay.connections[k].child_index>> : k \in DOMAIN lay.connections}
           = ExpectedLines(result.spec.children)
      /\ Len(lay.connections) = Cardinality(ExpectedLines(result.spec.children))
      /\ \A k \in DOMAIN lay.connections :
           With(lay.connections[k], LAMBDA c :
             /\ c.from.x = PositionOf(lay.positions, LineFrom(c)).x
             /\ c.from.y = PositionOf(lay.positions, LineFrom(c)).y
             /\ c.to.x = PositionOf(lay.positions, LineTo(c)).x
             /\ c.to.y = PositionOf(lay.positions, LineTo(c)).y))

\* a layout of at least two branches, one of them with two children or more
ConnectedTree ==
  /\ Succeeded
  /\ Len(result.spec.children) >= 2
  /\ \E i \in DOMAIN result.spec.children : Len(result.spec.children[i].children) >= 2
  /\ Len(result.spec.layout.connections) >= 4

\* ----- the layered strategy
\* a successful result of the layered strategy for at least one concept
LayeredResult ==
  /\ Succeeded
  /\ result.spec.layout.algorithm = "sugiyama"
  /\ result.spec.concepts # <<>>

\* the nodes one link or none away from a node of near, the links read both
\* ways
OneHopFrom(rels, near) ==
  near \cup {rels[i].to : i \in {j \in DOMAIN rels : rels[j].from \in near}}
       \cup {rels[i].from : i \in {j \in DOMAIN rels : rels[j].to \in near}}

RECURSIVE BallsFrom(_, _, _)
\* balls, then the set reached with one link more, k times over
BallsFrom(rels, balls, k) ==
  IF k = 0 THEN balls
  ELSE With(OneHopFrom(rels, balls[Len(balls)]), LAMBDA next :
         BallsFrom(rels, Append(balls, next), k - 1))

\* the least number of links between the topic and n, or -1 when no path of
\* links joins them
HopDistance(balls, n) ==
  IF \E k \in DOMAIN balls : n \in balls[k]
  THEN (CHOOSE k \in DOMAIN balls : n \in balls[k] /\ \A m \in DOMAIN balls : m < k => n \notin balls[m]) - 1
  ELSE -1

\* balls[k + 1]: the nodes at most k links away from the topic
HopBalls ==
  BallsFrom(result.spec.relationships, <<{result.spec.topic}>>,
            Len(result.spec.concepts))

\* C26: under the layered strategy the layer of a node is its least number of
\* links from the topic, the topic alone has layer 0, a node no path joins to
\* the topic has the largest layer reached plus one, without relationships
\* every concept has layer 1, every node has a position, the topic is at y = 0
LayerIsHopDistance ==
  LayeredResult =>
    With(HopBalls, LAMBDA balls :
    With([n \in Nodes |-> HopDistance(balls, n)], LAMBDA hops :
    With(SetMax({hops[n] : n \in Nodes}), LAMBDA farthest :
    With(result.spec.layout, LAMBDA lay :
      /\ DOMAIN lay.layer_of = Nodes
      /\ \A n \in Nodes :
           /\ hops[n] >= 0 => lay.layer_of[n] = hops[n]
           /\ hops[n] < 0 => lay.layer_of[n] = farthest + 1
           /\ lay.layer_of[n] = 0 <=> n = result.spec.topic
      /\ result.spec.relationships = <<>> =>
           \A n \in SeqToSet(result.spec.concepts) : lay.layer_of[n] = 1
      /\ Nodes \subseteq DOMAIN lay.positions
      /\ lay.positions[result.spec.topic].y = 0))))

\* a layered result with a concept two links from the topic, a concept that
\* reaches the topic only against the direction of its link, and a concept no
\* path joins to the topic
FarAndIsland ==
  /\ LayeredResult
  /\ \E n \in Nodes : result.spec.layout.layer_of[n] = 2 /\ HopDistance(HopBalls, n) = 2
  /\ \E n \in Nodes : HopDistance(HopBalls, n) < 0
  /\ \E i \in DOMAIN result.spec.relationships :
       result.spec.relationships[i].to = result.spec.topic

\* the largest layer of the layout of the result
MaxLayer == SetMax({result.spec.layout.layer_of[n] : n \in Nodes})

\* C27: under the layered strategy the y of a node depends on its layer L
\* alone: 0 for L = 0, above 0 for odd L, below 0 for even L > 0, of size
\* L * d for the one d = 0.9 / (largest layer) of the layout, which keeps the
\* deepest layer within 0.95 of the centre
LayerDecidesY ==
  LayeredResult =>
    With(result.spec.layout, LAMBDA lay :
      /\ \A n, m \in Nodes :
           lay.layer_of[n] = lay.layer_of[m] => lay.positions[n].y = lay.positions[m].y
      /\ \A n \in Nodes :
           With(lay.layer_of[n], LAMBDA L :
             /\ L = 0 => lay.positions[n].y = 0
             /\ (L > 0 /\ L % 2 = 1) => lay.positions[n].y > 0
             /\ (L > 0 /\ L % 2 = 0) => lay.positions[n].y < 0
             \* |y| = L * 0.9 / MaxLayer, to the last digit kept
             /\ Abs(Abs(lay.positions[n].y) * MaxLayer - L * 9 * (SCALE \div 10)) < MaxLayer
             /\ Abs(lay.positions[n].y) <= 9500))

\* a layered result of four layers or more: odd and even layers on both
\* sides of the topic
LayersOnBothSides ==
  /\ LayeredResult
  /\ MaxLayer >= 3
  /\ \E n, m \in Nodes : result.spec.layout.positions[n].y > 0
                         /\ result.spec.layout.positions[m].y < 0

\* ----- the radial strategy
\* a successful result of the radial strategy for at least one concept
RadialResult ==
  /\ Succeeded
  /\ result.spec.layout.algorithm = "radial"
  /\ result.spec.concepts # <<>>

\* the ring of the i-th concept of the result
RingAt(i) == result.spec.layout.layer_of[result.spec.concepts[i]]

\* the rings that hold a concept
RingsUsed == {RingAt(i) : i \in DOMAIN result.spec.concepts}

\* the ring of a concept follows its index, and is the one it would have
\* without any relationship
RingsByIndexOnly ==
  /\ \A i, j \in DOMAIN result.spec.concepts : i <= j => RingAt(i) <= RingAt(j)
  /\ result.spec.layout.layer_of
       = generate_layout_radial(result.spec.topic, result.spec.concepts, <<>>,
                                rng.stream, 0).layer_of

\* C28 as claimed: the radial strategy puts the concepts of every non-empty
\* list on at least 2 and at most 4 rings, by index alone
TwoToFourRings ==
  RadialResult =>
    /\ Cardinality(RingsUsed) >= 2
    /\ Cardinality(RingsUsed) <= 4
    /\ RingsByIndexOnly

\* C28: the radial strategy puts the concepts on rings 1 to 4, on two rings
\* or more when there are two concepts or more, a single concept alone on
\* ring 2; the ring of a concept never decreases with its index and does not
\* depend on the relationships
UpToFourRings ==
  RadialResult =>
    /\ RingsUsed \subseteq 1..4
    /\ Len(result.spec.concepts) >= 2 => Cardinality(RingsUsed) >= 2
    /\ Len(result.spec.concepts) = 1 => RingsUsed = {2}
    /\ RingsByIndexOnly

\* a radial result of more than 20 linked concepts on four rings
FourRingsLinked ==
  /\ RadialResult
  /\ Len(result.spec.concepts) > 20
  /\ result.spec.relationships # <<>>
  /\ RingsUsed = 1..4

\* the layer of the node n in the layout of the result
LayerOfNode(n) == result.spec.layout.layer_of[n]

\* the pairs (lower, upper) the sweeps work with: the relationships of the
\* result whose ends are in different layers, the end of the lower layer first
SweepEdges ==
  {IF LayerOfNode(r.from) < LayerOfNode(r.to) THEN <<r.from, r.to>> ELSE <<r.to, r.from>> :
     r \in {q \in SeqToSet(result.spec.relationships) : LayerOfNode(q.from) # LayerOfNode(q.to)}}

\* C29: under the layered strategy the layers of the two ends of every
\* relationship differ by at most 1, so every pair the sweeps work with joins
\* two adjacent layers, and every neighbour a sweep looks up in the layer
\* above or below is found there
LinksJoinAdjacentLayers ==
  LayeredResult =>
    /\ EndpointsWithin(Nodes)
    /\ \A i \in DOMAIN result.spec.relationships :
         Abs(LayerOfNode(result.spec.relationships[i].from)
               - LayerOfNode(result.spec.relationships[i].to)) <= 1
    /\ SweepEdges
         = SeqToSet(DirEdges(result.spec.relationships, result.spec.layout.layer_of))
    /\ \A e \in SweepEdges :
         /\ LayerOfNode(e[2]) = LayerOfNode(e[1]) + 1
         \* the downward sweep of the layer of e[2] looks e[1] up in the layer above
         /\ e[1] \in SeqToSet(result.spec.layout.layers[LayerOfNode(e[2]) - 1])
         \* the upward sweep of the layer of e[1] looks e[2] up in the layer below
         /\ e[2] \in SeqToSet(result.spec.layout.layers[LayerOfNode(e[1]) + 1])

\* a layered result with a link inside layer 1, a link between layers 1 and 2
\* and a link between layers 2 and 3
LinksOfEveryKind ==
  /\ LayeredResult
  /\ \E i, j, k \in DOMAIN result.spec.relationships :
       /\ LayerOfNode(result.spec.relationships[i].from) = 1
       /\ LayerOfNode(result.spec.relationships[i].to) = 1
       /\ {LayerOfNode(result.spec.relationships[j].from),
           LayerOfNode(result.spec.relationships[j].to)} = {1, 2}
       /\ {LayerOfNode(result.spec.relationships[k].from),
           LayerOfNode(result.spec.relationships[k].to)} = {2, 3}


\* the nodes the search put in layer L
AssignedTo(L) == {n \in Nodes : LayerOfNode(n) = L}

\* ordered holds every node of layer L once, and no other node
OrdersLayer(ordered, L) ==
  /\ SeqToSet(ordered) = AssignedTo(L)
  /\ Len(ordered) = Cardinality(AssignedTo(L))

\* every layer of layers holds the nodes the search assigned to it, each once
KeepsLayers(layers) ==
  /\ DOMAIN layers = 0..MaxLayer
  /\ \A L \in DOMAIN layers : OrdersLayer(layers[L], L)

\* C30: the sweeps of the layered strategy only reorder the nodes inside their
\* layer: before the first sweep and after each of the four, every layer holds
\* the nodes the search assigned to it, each once, and the layers of the
\* result partition the topic and the concepts
SweepsKeepLayers ==
  LayeredResult =>
    With(result.spec.layout, LAMBDA lay :
      /\ Len(lay.sweeps) = SWEEPS + 1
      /\ \A k \in DOMAIN lay.sweeps : KeepsLayers(lay.sweeps[k])
      /\ lay.layers = lay.sweeps[SWEEPS + 1]
      /\ UNION {SeqToSet(lay.layers[L]) : L \in DOMAIN lay.layers} = Nodes
      /\ SumSeq([L \in 1..(MaxLayer + 1) |-> Len(lay.layers[L - 1])])
           = Cardinality(Nodes))

\* a layered result in which the sweeps changed the order of a layer
LayerReordered ==
  /\ LayeredResult
  /\ \E L \in DOMAIN result.spec.layout.layers :
       /\ Len(result.spec.layout.layers[L]) >= 2
       /\ result.spec.layout.layers[L] # result.spec.layout.sweeps[1][L]

====
